---- MODULE Spec2Model ----
(***************************************************************************)
(* Verification model of the skill-plugin HTTP proxies (Linear, Notion,    *)
(* Neon, Supabase, Slack): the POST /action pipeline (envelope check,      *)
(* category/action dispatch, per-action validation, vendor calls, error    *)
(* sanitization, reply) and the error sanitizers as pure functions.        *)
(* JavaScript strings are TLA+ strings, handled character by character.    *)
(***************************************************************************)
EXTENDS Integers, Sequences, FiniteSets, TLC

(***************************************************************************)
(* String primitives (String.prototype.includes / startsWith /             *)
(* toLowerCase) and the regular expressions of the sources.                *)
(***************************************************************************)
CharAt(s, i) == SubSeq(s, i, i)

Chars(s) == {CharAt(s, i) : i \in 1..Len(s)}

Includes(s, sub) ==
  \E i \in 1..(Len(s) - Len(sub) + 1) : SubSeq(s, i, i + Len(sub) - 1) = sub

StartsWith(s, p) == Len(s) >= Len(p) /\ SubSeq(s, 1, Len(p)) = p

UpperAlpha == "ABCDEFGHIJKLMNOPQRSTUVWXYZ"
LowerAlpha == "abcdefghijklmnopqrstuvwxyz"
Digits == "0123456789"

LowerOf ==
  [c \in Chars(UpperAlpha) |->
     CharAt(LowerAlpha, CHOOSE i \in 1..Len(UpperAlpha) : CharAt(UpperAlpha, i) = c)]

LowerChar(c) == IF c \in DOMAIN LowerOf THEN LowerOf[c] ELSE c

\* String.prototype.toLowerCase, one half of the string after the other
RECURSIVE ToLowerCase(_)
ToLowerCase(s) ==
  IF Len(s) = 0 THEN ""
  ELSE IF Len(s) = 1 THEN LowerChar(s)
  ELSE ToLowerCase(SubSeq(s, 1, Len(s) \div 2)) \o ToLowerCase(SubSeq(s, Len(s) \div 2 + 1, Len(s)))

\* \s of the regular expressions (the whitespace the inputs use)
WhiteSpace == {" ", "\t", "\n"}

\* [A-Za-z0-9_-], [A-Za-z0-9._-], [A-Za-z0-9-]
WordDashChars == Chars(UpperAlpha) \cup Chars(LowerAlpha) \cup Chars(Digits) \cup {"_", "-"}
TokenChars == WordDashChars \cup {"."}
AlnumDashChars == Chars(UpperAlpha) \cup Chars(LowerAlpha) \cup Chars(Digits) \cup {"-"}

\* A regular expression is a sequence of elements: a literal (case-insensitive
\* under the i flag) or a greedy run of a character class (negated or not)
\* of at least min characters.
Lit(s, ci) == [k |-> "lit", s |-> s, ci |-> ci, cls |-> {}, neg |-> FALSE, min |-> 0]
Run(cls, neg, min) == [k |-> "run", s |-> "", ci |-> FALSE, cls |-> cls, neg |-> neg, min |-> min]

\* index just past the longest run of the class that starts at position i of s
RunEnd(s, i, cls, neg) ==
  CHOOSE e \in i..(Len(s) + 1) :
    /\ \A k \in i..(e - 1) : (CharAt(s, k) \in cls) # neg
    /\ e = Len(s) + 1 \/ (CharAt(s, e) \in cls) = neg

\* index just past the match of pat[j..] at position i of s, or 0 when there is none
RECURSIVE MatchAt(_, _, _, _)
MatchAt(pat, j, s, i) ==
  IF j > Len(pat) THEN i
  ELSE LET e == pat[j] IN
       IF e.k = "lit"
       THEN LET seg == SubSeq(s, i, i + Len(e.s) - 1) IN
            IF /\ i + Len(e.s) - 1 <= Len(s)
               /\ (IF e.ci THEN ToLowerCase(seg) = ToLowerCase(e.s) ELSE seg = e.s)
            THEN MatchAt(pat, j + 1, s, i + Len(e.s))
            ELSE 0
       ELSE LET r == RunEnd(s, i, e.cls, e.neg) IN
            IF r - i >= e.min THEN MatchAt(pat, j + 1, s, r) ELSE 0

\* String.prototype.replace(pattern /g, "[REDACTED]")
RECURSIVE ReplaceFrom(_, _, _)
ReplaceFrom(pat, s, i) ==
  LET starts == {k \in i..Len(s) : MatchAt(pat, 1, s, k) > k} IN
  IF starts = {} THEN SubSeq(s, i, Len(s))
  ELSE LET first == CHOOSE k \in starts : \A m \in starts : k <= m IN
       SubSeq(s, i, first - 1) \o "[REDACTED]" \o ReplaceFrom(pat, s, MatchAt(pat, 1, s, first))

Redact(pat, s) == ReplaceFrom(pat, s, 1)

RECURSIVE RedactAll(_, _, _)
RedactAll(pats, k, s) ==
  IF k > Len(pats) THEN s ELSE RedactAll(pats, k + 1, Redact(pats[k], s))

(***************************************************************************)
(* Thrown values.  kind is the JavaScript class or type of the value:      *)
(* "Error", "ZodError", "SupabaseSkillError", "SlackSkillError",           *)
(* "TypeError" are instances of Error; "string", "number", "null",         *)
(* "undefined", "object" are not.  For a string, message is its text.      *)
(* code is the code property, dataError is data.error (Slack SDK errors),  *)
(* issues are the issues of a ZodError.                                    *)
(***************************************************************************)
ErrorKinds == {"Error", "ZodError", "SupabaseSkillError", "SlackSkillError", "TypeError"}

Thrown(kind, message, code, dataError, issues) ==
  [kind |-> kind, message |-> message, code |-> code, dataError |-> dataError, issues |-> issues]

InstanceOfError(e) == e.kind \in ErrorKinds

ErrorName(e) == e.kind

NewError(message) == Thrown("Error", message, "", "", <<>>)

\* JavaScript built-in values reachable through the prototype chain of an
\* object literal, named by their path.  obj[key] on an object literal whose
\* own keys do not contain key finds the property on Object.prototype.
ObjectPrototypeGet(key) ==
  CASE key = "constructor" -> "Object"
    [] key = "toString" -> "Object.prototype.toString"
    [] key = "valueOf" -> "Object.prototype.valueOf"
    [] key = "hasOwnProperty" -> "Object.prototype.hasOwnProperty"
    [] key = "__proto__" -> "null"
    [] OTHER -> "undefined"

LiteralInheritedGet(key) ==
  IF key = "__proto__" THEN "Object.prototype" ELSE ObjectPrototypeGet(key)

\* properties of the Object constructor (own, then Function.prototype)
ObjectFunctionGet(key) ==
  CASE key = "keys" -> "Object.keys"
    [] key = "name" -> "Object.name"
    [] key = "prototype" -> "Object.prototype"
    [] key = "constructor" -> "Function"
    [] key = "toString" -> "Function.prototype.toString"
    [] key = "__proto__" -> "Function.prototype"
    [] key = "valueOf" -> "Object.prototype.valueOf"
    [] key = "hasOwnProperty" -> "Object.prototype.hasOwnProperty"
    [] OTHER -> "undefined"

\* properties every function inherits from Function.prototype
FunctionPrototypeGet(key) ==
  CASE key = "constructor" -> "Function"
    [] key = "toString" -> "Function.prototype.toString"
    [] key = "__proto__" -> "Function.prototype"
    [] key = "name" -> "Object.name"
    [] key = "valueOf" -> "Object.prototype.valueOf"
    [] key = "hasOwnProperty" -> "Object.prototype.hasOwnProperty"
    [] OTHER -> "undefined"

TypeOfBuiltin(value) ==
  CASE value \in {"undefined", "null"} -> value
    [] value = "Object.prototype" -> "object"
    [] value = "Object.name" -> "string"
    [] OTHER -> "function"

\* value[key] for a built-in value
BuiltinGet(value, key) ==
  CASE value = "Object" -> ObjectFunctionGet(key)
    [] value = "Object.prototype" -> ObjectPrototypeGet(key)
    [] TypeOfBuiltin(value) = "function" -> FunctionPrototypeGet(key)
    [] OTHER -> "undefined"

\* obj[key] for an object literal with the own keys own: "own", or the type
\* of the inherited value, or "undefined"
PropertyKind(own, key) ==
  IF key \in own THEN "own"
  ELSE LET t == TypeOfBuiltin(LiteralInheritedGet(key)) IN
       IF t = "null" THEN "undefined" ELSE t

\* value(params) called without a this: the typeof of what it returns, or
\* "throws"
BuiltinCall(value, paramsType) ==
  CASE value = "Object" -> "object"
    [] value = "Object.keys" -> IF paramsType = "undefined" THEN "throws" ELSE "array"
    [] value = "Object.prototype.toString" -> "string"
    [] value = "Function.prototype" -> "undefined"
    [] value = "Function" -> IF paramsType = "undefined" THEN "function" ELSE "throws"
    [] OTHER -> "throws"

\* the message of what value(params) throws
BuiltinThrowMessage(value) ==
  CASE TypeOfBuiltin(value) # "function" -> "handler is not a function"
    [] value = "Function" -> "Unexpected identifier 'Object'"
    [] value = "Function.prototype.toString" ->
         "Function.prototype.toString requires that 'this' be a Function"
    [] OTHER -> "Cannot convert undefined or null to object"

\* A sanitizer's return value.  shape is "pair" for an object literal
\* {status, message}, "string" for a bare string, "function" / "object" for
\* a value inherited from Object.prototype.
Pair(status, message) ==
  [shape |-> "pair", statusType |-> "number", status |-> status,
   messageType |-> "string", message |-> message]

PairWith(statusType, status, message) ==
  [shape |-> "pair", statusType |-> statusType, status |-> status,
   messageType |-> "string", message |-> message]

BareString(message) ==
  [shape |-> "string", statusType |-> "undefined", status |-> 0,
   messageType |-> "undefined", message |-> message]

Inherited(kind) ==
  [shape |-> kind, statusType |-> "undefined", status |-> 0,
   messageType |-> "undefined", message |-> ""]

(***************************************************************************)
(* The error sanitizers.                                                   *)
(***************************************************************************)

\* Linear: errors.ts sanitizeError
LinearSanitizeError(error) ==
  IF ~InstanceOfError(error) THEN Pair(500, "An unexpected error occurred")
  ELSE LET message == ToLowerCase(error.message) IN
    IF Includes(message, "401") \/ Includes(message, "unauthorized") \/ Includes(message, "authentication")
    THEN Pair(401, "Invalid API key. Check your Linear personal API key.")
    ELSE IF Includes(message, "404") \/ Includes(message, "not found") \/ Includes(message, "entity not found")
    THEN Pair(404, "Resource not found. Check the issue/project/team ID.")
    ELSE IF Includes(message, "403") \/ Includes(message, "forbidden") \/ Includes(message, "permission")
    THEN Pair(403, "Access denied. Check your API key permissions.")
    ELSE IF Includes(message, "rate limit") \/ Includes(message, "ratelimited")
    THEN Pair(429, "Rate limit exceeded. Try again later.")
    ELSE IF Includes(message, "validation") \/ Includes(message, "invalid")
    THEN Pair(400, "Invalid request parameters.")
    ELSE IF ErrorName(error) = "ZodError"
    THEN Pair(400, "Invalid request parameters.")
    ELSE IF Includes(message, "network") \/ Includes(message, "timeout") \/ Includes(message, "econnrefused")
    THEN Pair(503, "Connection error. Try again later.")
    ELSE Pair(400, "Request failed. Check your parameters.")

\* sanitizeError with the forbidden rule moved in front of the not-found rule
NeonSanitizeErrorForbiddenFirst(error) ==
  IF ~InstanceOfError(error) THEN Pair(500, "An unexpected error occurred")
  ELSE LET message == ToLowerCase(error.message) IN
    IF Includes(message, "401") \/ Includes(message, "unauthorized") \/ Includes(message, "invalid api key")
    THEN Pair(401, "Invalid API key. Check your Neon Organization API key.")
    ELSE IF Includes(message, "403") \/ Includes(message, "forbidden")
    THEN Pair(403, "Access denied. Check your API key permissions.")
    ELSE IF Includes(message, "404") \/ Includes(message, "not found")
    THEN Pair(404, "Resource not found. Check your project/branch ID.")
    ELSE IF Includes(message, "rate limit") \/ Includes(message, "429")
    THEN Pair(429, "Rate limit exceeded. Try again later.")
    ELSE IF ErrorName(error) = "ZodError"
    THEN Pair(400, "Invalid request parameters.")
    ELSE IF Includes(message, "connection") \/ Includes(message, "timeout")
    THEN Pair(503, "Connection error. Try again later.")
    ELSE Pair(400, "Request failed. Check your parameters.")

\* Neon: errors.ts sanitizeError
NeonSanitizeError(error) ==
  IF ~InstanceOfError(error) THEN Pair(500, "An unexpected error occurred")
  ELSE LET message == ToLowerCase(error.message) IN
    IF Includes(message, "401") \/ Includes(message, "unauthorized") \/ Includes(message, "invalid api key")
    THEN Pair(401, "Invalid API key. Check your Neon Organization API key.")
    ELSE IF Includes(message, "404") \/ Includes(message, "not found")
    THEN Pair(404, "Resource not found. Check your project/branch ID.")
    ELSE IF Includes(message, "403") \/ Includes(message, "forbidden")
    THEN Pair(403, "Access denied. Check your API key permissions.")
    ELSE IF Includes(message, "rate limit") \/ Includes(message, "429")
    THEN Pair(429, "Rate limit exceeded. Try again later.")
    ELSE IF ErrorName(error) = "ZodError"
    THEN Pair(400, "Invalid request parameters.")
    ELSE IF Includes(message, "connection") \/ Includes(message, "timeout")
    THEN Pair(503, "Connection error. Try again later.")
    ELSE Pair(400, "Request failed. Check your parameters.")

\* Notion: errors.ts sanitizeError
NotionSanitizeError(error) ==
  IF ~InstanceOfError(error) THEN Pair(500, "An unexpected error occurred")
  ELSE LET message == ToLowerCase(error.message) IN
    IF Includes(message, "401") \/ Includes(message, "unauthorized") \/ Includes(message, "invalid api key")
    THEN Pair(401, "Invalid API key. Check your Notion integration token.")
    ELSE IF Includes(message, "404") \/ Includes(message, "not found") \/ Includes(message, "could not find")
    THEN Pair(404, "Resource not found. Check the page/database ID or ensure it's shared with your integration.")
    ELSE IF Includes(message, "403") \/ Includes(message, "forbidden") \/ Includes(message, "restricted")
    THEN Pair(403, "Access denied. Ensure the page/database is shared with your integration.")
    ELSE IF Includes(message, "rate limit") \/ Includes(message, "429")
    THEN Pair(429, "Rate limit exceeded. Try again in a few seconds.")
    ELSE IF Includes(message, "validation") \/ Includes(message, "invalid")
    THEN Pair(400, "Invalid request parameters.")
    ELSE IF ErrorName(error) = "ZodError"
    THEN Pair(400, "Invalid request parameters.")
    ELSE IF Includes(message, "conflict") \/ Includes(message, "409")
    THEN Pair(409, "Conflict. The resource may have been modified.")
    ELSE Pair(400, "Request failed. Check your parameters.")

\* Slack: errors.ts SLACK_ERROR_MAP
SLACK_ERROR_MAP ==
  [invalid_auth |-> Pair(401, "Invalid bot token. Check SLACK_BOT_TOKEN."),
   token_revoked |-> Pair(401, "Bot token has been revoked."),
   not_authed |-> Pair(401, "No authentication token provided."),
   account_inactive |-> Pair(401, "Bot account is inactive."),
   channel_not_found |-> Pair(404, "Channel not found or bot lacks access."),
   user_not_found |-> Pair(404, "User not found."),
   message_not_found |-> Pair(404, "Message not found."),
   file_not_found |-> Pair(404, "File not found."),
   not_in_channel |-> Pair(403, "Bot is not a member of this channel."),
   is_archived |-> Pair(403, "Channel is archived."),
   cant_archive_general |-> Pair(403, "Cannot archive the general channel."),
   restricted_action |-> Pair(403, "Action restricted by workspace settings."),
   missing_scope |-> Pair(403, "Bot token lacks required scope for this action."),
   user_is_restricted |-> Pair(403, "User is restricted from this action."),
   ratelimited |-> Pair(429, "Rate limited. Try again later."),
   already_reacted |-> Pair(400, "Already added this reaction."),
   no_reaction |-> Pair(400, "Reaction does not exist on this message."),
   name_taken |-> Pair(400, "Channel name already exists."),
   invalid_name |-> Pair(400, "Invalid channel name."),
   invalid_name_maxlength |-> Pair(400, "Channel name too long (max 80 chars)."),
   msg_too_long |-> Pair(400, "Message text too long (max 40,000 chars)."),
   no_text |-> Pair(400, "Message text is required."),
   too_many_attachments |-> Pair(400, "Too many attachments."),
   cant_delete_message |-> Pair(403, "Cannot delete this message."),
   edit_window_closed |-> Pair(403, "Message edit window has closed."),
   invalid_ts_latest |-> Pair(400, "Invalid latest timestamp."),
   invalid_ts_oldest |-> Pair(400, "Invalid oldest timestamp.")]

\* Slack: errors.ts SENSITIVE_PATTERNS
SlackSensitivePatterns ==
  << <<Lit("xoxb-", TRUE), Run(AlnumDashChars, FALSE, 1)>>,
     <<Lit("xoxp-", TRUE), Run(AlnumDashChars, FALSE, 1)>>,
     <<Lit("xoxa-", TRUE), Run(AlnumDashChars, FALSE, 1)>>,
     <<Lit("Bearer", TRUE), Run(WhiteSpace, FALSE, 1), Run(TokenChars, FALSE, 1)>> >>

\* Slack: errors.ts sanitizeError
SlackSanitizeError(error) ==
  IF ~InstanceOfError(error) THEN Pair(500, "An unexpected error occurred")
  ELSE LET errorCode == IF error.dataError # "" THEN error.dataError ELSE error.code
           found == PropertyKind(DOMAIN SLACK_ERROR_MAP, errorCode)
           message == RedactAll(SlackSensitivePatterns, 1, error.message)
       IN
    IF errorCode # "" /\ found = "own" THEN SLACK_ERROR_MAP[errorCode]
    ELSE IF errorCode # "" /\ found # "undefined" THEN Inherited(found)
    ELSE IF Includes(ToLowerCase(message), "timeout") \/ Includes(message, "ECONNREFUSED")
    THEN Pair(503, "Connection to Slack failed. Try again later.")
    ELSE IF ErrorName(error) = "ZodError"
    THEN Pair(400, "Invalid request parameters.")
    ELSE Pair(400, "Request failed. Check your parameters.")

\* SENSITIVE_PATTERNS whose Bearer pattern lacks the i flag
SupabaseSensitivePatternsCaseSensitive ==
  << <<Lit("supabase.co", TRUE)>>,
     <<Lit("eyJ", FALSE), Run(WordDashChars, FALSE, 1), Lit(".", FALSE),
       Run(WordDashChars, FALSE, 1), Lit(".", FALSE), Run(WordDashChars, FALSE, 0)>>,
     <<Lit("service_role", TRUE)>>,
     <<Lit("anon", TRUE)>>,
     <<Lit("Bearer", FALSE), Run(WhiteSpace, FALSE, 1), Run(TokenChars, FALSE, 1)>>,
     <<Lit("apikey", TRUE), Run(WhiteSpace \cup {":"}, FALSE, 1), Run(TokenChars, FALSE, 1)>>,
     <<Lit("postgres://", TRUE), Run(WhiteSpace, TRUE, 1)>>,
     <<Lit("postgresql://", TRUE), Run(WhiteSpace, TRUE, 1)>>,
     <<Lit("password", TRUE), Run({"=", ":"}, FALSE, 1), Run(WhiteSpace, TRUE, 1)>> >>

\* Supabase: errors.ts SENSITIVE_PATTERNS (the version with a status)
SupabaseSensitivePatterns ==
  << <<Lit("supabase.co", TRUE)>>,
     <<Lit("eyJ", FALSE), Run(WordDashChars, FALSE, 1), Lit(".", FALSE),
       Run(WordDashChars, FALSE, 1), Lit(".", FALSE), Run(WordDashChars, FALSE, 0)>>,
     <<Lit("service_role", TRUE)>>,
     <<Lit("anon", TRUE)>>,
     <<Lit("Bearer", TRUE), Run(WhiteSpace, FALSE, 1), Run(TokenChars, FALSE, 1)>>,
     <<Lit("apikey", TRUE), Run(WhiteSpace \cup {":"}, FALSE, 1), Run(TokenChars, FALSE, 1)>>,
     <<Lit("postgres://", TRUE), Run(WhiteSpace, TRUE, 1)>>,
     <<Lit("postgresql://", TRUE), Run(WhiteSpace, TRUE, 1)>>,
     <<Lit("password", TRUE), Run({"=", ":"}, FALSE, 1), Run(WhiteSpace, TRUE, 1)>> >>

\* Supabase: errors.ts ERROR_STATUS_MAP
ERROR_STATUS_MAP ==
  [c \in {"PGRST301", "PGRST302", "42501", "42P01", "23505", "23503", "22P02", "42703"} |->
     CASE c = "PGRST301" -> 401
       [] c = "PGRST302" -> 403
       [] c = "42501" -> 403
       [] c = "42P01" -> 404
       [] c = "23505" -> 409
       [] c = "23503" -> 409
       [] c = "22P02" -> 400
       [] c = "42703" -> 400]

\* Supabase: errors.ts sanitizeMessage
sanitizeMessage(message) == RedactAll(SupabaseSensitivePatterns, 1, message)

\* Supabase: errors.ts sanitizeError, returning {status, message}
SupabaseSanitizeError(error) ==
  IF error.kind = "SupabaseSkillError"
  THEN Pair(IF error.code = "CLIENT_NOT_INITIALIZED" THEN 503 ELSE 500,
            sanitizeMessage(error.message))
  ELSE IF InstanceOfError(error)
  THEN LET found == PropertyKind(DOMAIN ERROR_STATUS_MAP, error.code) IN
       IF error.code # "" /\ found = "own"
       THEN Pair(ERROR_STATUS_MAP[error.code], sanitizeMessage(error.message))
       ELSE IF error.code # "" /\ found # "undefined"
       THEN PairWith(found, 0, sanitizeMessage(error.message))
       ELSE Pair(500, sanitizeMessage(error.message))
  ELSE IF error.kind = "string"
  THEN Pair(500, sanitizeMessage(error.message))
  ELSE Pair(500, sanitizeMessage("An unexpected error occurred"))

\* Supabase: the errors.ts whose sanitizeError returns a bare string
SupabaseStringSensitivePatterns ==
  << <<Lit("supabase.co", TRUE)>>,
     <<Lit("eyJ", FALSE), Run(WordDashChars, FALSE, 1), Lit(".", FALSE),
       Run(WordDashChars, FALSE, 1), Lit(".", FALSE), Run(WordDashChars, FALSE, 0)>>,
     <<Lit("service_role", TRUE)>>,
     <<Lit("anon", TRUE)>>,
     <<Lit("Bearer", TRUE), Run(WhiteSpace, FALSE, 1), Run(TokenChars, FALSE, 1)>>,
     <<Lit("apikey", TRUE), Run(WhiteSpace \cup {":"}, FALSE, 1), Run(TokenChars, FALSE, 1)>> >>

SupabaseStringSanitizeError(error) ==
  LET message == IF InstanceOfError(error) THEN error.message
                 ELSE IF error.kind = "string" THEN error.message
                 ELSE "An unexpected error occurred"
  IN BareString(RedactAll(SupabaseStringSensitivePatterns, 1, message))

Sanitizers == {"linear", "neon", "notion", "slack", "supabase", "supabase-string"}

SanitizeWith(who, error) ==
  CASE who = "linear" -> LinearSanitizeError(error)
    [] who = "neon" -> NeonSanitizeError(error)
    [] who = "notion" -> NotionSanitizeError(error)
    [] who = "slack" -> SlackSanitizeError(error)
    [] who = "supabase" -> SupabaseSanitizeError(error)
    [] who = "supabase-string" -> SupabaseStringSanitizeError(error)

(***************************************************************************)
(* JavaScript values of request parameters.  t is the typeof of the value  *)
(* ("array" and "null" told apart from "object"); s is the text of a       *)
(* string, "float" for a non-integer number, and for an array whether its  *)
(* elements satisfy the element schema ("ok" / "bad"); n is the number or  *)
(* the length of the array.                                                *)
(***************************************************************************)
Undefined == [t |-> "undefined", s |-> "", n |-> 0]
Null == [t |-> "null", s |-> "", n |-> 0]
Str(s) == [t |-> "string", s |-> s, n |-> 0]
Num(n) == [t |-> "number", s |-> "", n |-> n]
Float(n) == [t |-> "number", s |-> "float", n |-> n]
Bool(b) == [t |-> "boolean", s |-> "", n |-> IF b THEN 1 ELSE 0]
Arr(n, elems) == [t |-> "array", s |-> elems, n |-> n]
Obj == [t |-> "object", s |-> "", n |-> 0]

\* !v is false
Truthy(v) ==
  CASE v.t \in {"undefined", "null"} -> FALSE
    [] v.t = "string" -> Len(v.s) > 0
    [] v.t = "number" -> v.n # 0 \/ v.s = "float"
    [] v.t = "boolean" -> v.n = 1
    [] OTHER -> TRUE

AllIn(s, cls) == \A i \in 1..Len(s) : CharAt(s, i) \in cls

HexChars == Chars("abcdef") \cup Chars(Digits)
LowerAlnum == Chars(LowerAlpha) \cup Chars(Digits)
IdentStart == Chars(UpperAlpha) \cup Chars(LowerAlpha) \cup {"_"}
IdentChars == IdentStart \cup Chars(Digits)

FullMatch(pat, s) == MatchAt(pat, 1, s, 1) = Len(s) + 1

\* Linear validation.ts: uuidPattern /^[a-f0-9-]{36}$/
isUuid(id) == Len(id) = 36 /\ AllIn(id, HexChars \cup {"-"})

\* Linear validation.ts: issueIdentifierPattern /^[A-Z]+-\d+$/
isIssueIdentifier(id) ==
  FullMatch(<<Run(Chars(UpperAlpha), FALSE, 1), Lit("-", FALSE), Run(Chars(Digits), FALSE, 1)>>, id)

\* Notion validation.ts: UUID_PATTERN, RAW_ID_PATTERN
UUID_PATTERN(id) ==
  /\ Len(id) = 36
  /\ \A i \in 1..36 :
       IF i \in {9, 14, 19, 24} THEN CharAt(id, i) = "-" ELSE CharAt(id, i) \in HexChars

RAW_ID_PATTERN(id) == Len(id) = 32 /\ AllIn(id, HexChars)

\* `${raw.slice(0, 8)}-${raw.slice(8, 12)}-${raw.slice(12, 16)}-${raw.slice(16, 20)}-${raw.slice(20)}`
DashedId(raw) ==
  SubSeq(raw, 1, 8) \o "-" \o SubSeq(raw, 9, 12) \o "-" \o SubSeq(raw, 13, 16) \o "-"
  \o SubSeq(raw, 17, 20) \o "-" \o SubSeq(raw, 21, Len(raw))

\* normalizeNotionId that returns a raw ID as it was given
normalizeNotionIdVerbatim(idOrUrl) ==
  IF UUID_PATTERN(idOrUrl) \/ RAW_ID_PATTERN(idOrUrl)
  THEN [ok |-> TRUE, id |-> idOrUrl, message |-> ""]
  ELSE [ok |-> FALSE, id |-> "", message |-> "Invalid Notion ID format"]

\* Notion validation.ts: normalizeNotionId; ok is FALSE when it throws message
normalizeNotionId(idOrUrl) ==
  IF Includes(idOrUrl, "notion.so") \/ Includes(idOrUrl, "notion.site")
  THEN LET starts == {i \in 1..(Len(idOrUrl) - 31) : AllIn(SubSeq(idOrUrl, i, i + 31), HexChars)} IN
       IF starts # {}
       THEN LET first == CHOOSE i \in starts : \A k \in starts : i <= k IN
            [ok |-> TRUE, id |-> DashedId(SubSeq(idOrUrl, first, first + 31)), message |-> ""]
       ELSE [ok |-> FALSE, id |-> "", message |-> "Could not extract Notion ID from URL"]
  ELSE IF UUID_PATTERN(idOrUrl) THEN [ok |-> TRUE, id |-> idOrUrl, message |-> ""]
  ELSE IF RAW_ID_PATTERN(idOrUrl) THEN [ok |-> TRUE, id |-> DashedId(idOrUrl), message |-> ""]
  ELSE [ok |-> FALSE, id |-> "", message |-> "Invalid Notion ID format"]

\* Neon validation.ts: neonIdPattern /^[a-z0-9-]+$/
neonIdPattern(id) == Len(id) >= 1 /\ AllIn(id, LowerAlnum \cup {"-"})

\* Supabase validation.ts: sqlIdentifierPattern, columnsPattern
sqlIdentifierPattern(id) ==
  /\ Len(id) >= 1
  /\ CharAt(id, 1) \in IdentStart
  /\ AllIn(id, IdentChars)

RECURSIVE ColumnList(_, _)
ColumnList(s, i) ==
  \* [a-zA-Z_][a-zA-Z0-9_]*(\s*,\s*[a-zA-Z_][a-zA-Z0-9_]*)* from position i to the end
  LET e == IF i <= Len(s) /\ CharAt(s, i) \in IdentStart
           THEN RunEnd(s, i, IdentChars, FALSE) ELSE 0
  IN IF e = 0 THEN FALSE
     ELSE IF e = Len(s) + 1 THEN TRUE
     ELSE LET c == RunEnd(s, e, WhiteSpace, FALSE) IN
          /\ c <= Len(s) /\ CharAt(s, c) = ","
          /\ ColumnList(s, RunEnd(s, c + 1, WhiteSpace, FALSE))

columnsPattern(s) == s = "*" \/ ColumnList(s, 1)

\* Slack validation.ts: slackIdPattern, timestampPattern, emojiPattern, channelNamePattern
slackIdPattern(id) ==
  /\ Len(id) >= 9
  /\ CharAt(id, 1) \in Chars(UpperAlpha)
  /\ AllIn(id, Chars(UpperAlpha) \cup Chars(Digits))

timestampPattern(ts) ==
  FullMatch(<<Run(Chars(Digits), FALSE, 1), Lit(".", FALSE), Run(Chars(Digits), FALSE, 1)>>, ts)

emojiPattern(name) == Len(name) >= 1 /\ AllIn(name, LowerAlnum \cup {"_", "+", "-"})

channelNamePattern(name) ==
  Len(name) >= 1 /\ Len(name) <= 80 /\ AllIn(name, LowerAlnum \cup {"_", "-"})

\* zod's z.string().email(): local@domain.tld over the usual characters
emailPattern(s) ==
  LET local == RunEnd(s, 1, IdentChars \cup {".", "+", "-"}, FALSE)
      dom == IF local <= Len(s) /\ CharAt(s, local) = "@"
             THEN RunEnd(s, local + 1, IdentChars \cup {"-", "."}, FALSE) ELSE 0
  IN /\ local > 1
     /\ dom = Len(s) + 1
     /\ \E d \in (local + 2)..(Len(s) - 1) : CharAt(s, d) = "."

PatternTest(name, s) ==
  CASE name = "linearId" -> isUuid(s) \/ isIssueIdentifier(s)
    [] name = "notionId" -> UUID_PATTERN(s) \/ RAW_ID_PATTERN(s)
    [] name = "neonId" -> neonIdPattern(s)
    [] name = "sqlIdentifier" -> sqlIdentifierPattern(s)
    [] name = "columns" -> columnsPattern(s)
    [] name = "slackChannelId" -> slackIdPattern(s) \/ StartsWith(s, "#")
    [] name = "slackUserId" -> slackIdPattern(s)
    [] name = "slackTimestamp" -> timestampPattern(s)
    [] name = "emojiName" -> emojiPattern(s)
    [] name = "channelName" -> channelNamePattern(s)
    [] name = "email" -> emailPattern(s)
    [] name = "teamKey" -> Len(s) >= 1 /\ AllIn(s, Chars(UpperAlpha))
    [] OTHER -> TRUE

(***************************************************************************)
(* Zod schemas.  A schema is a record: the expected type, whether          *)
(* undefined is accepted (optional), length or value bounds (-1: none),    *)
(* int(), a regex or refine check with its message, the options of an      *)
(* enum.  Issues(schema, v) is the sequence of issue texts of              *)
(* schema.safeParse(v), each the issue's code and message as they appear   *)
(* in ZodError.message.                                                    *)
(***************************************************************************)
ZType(type) ==
  [type |-> type, optional |-> FALSE, min |-> -1, max |-> -1, int |-> FALSE,
   check |-> "", pattern |-> "", message |-> "", options |-> <<>>]

ZString == ZType("string")
ZStringLen(min, max) == [ZString EXCEPT !.min = min, !.max = max]
ZRegex(pattern, message) ==
  [ZString EXCEPT !.check = "regex", !.pattern = pattern, !.message = message]
ZRefine(pattern, message) ==
  [ZString EXCEPT !.check = "refine", !.pattern = pattern, !.message = message]
ZInt(min, max) == [ZType("number") EXCEPT !.int = TRUE, !.min = min, !.max = max]
ZEnum(options) == [ZType("enum") EXCEPT !.options = options]
ZOptional(schema) == [schema EXCEPT !.optional = TRUE]

RECURSIVE JoinOptions(_, _)
JoinOptions(options, k) ==
  IF k > Len(options) THEN ""
  ELSE "'" \o options[k] \o "'" \o (IF k < Len(options) THEN " | " ELSE "") \o JoinOptions(options, k + 1)

Range(seq) == {seq[k] : k \in 1..Len(seq)}

\* typeof as zod names it
ZodTypeName(v) == IF v.t = "number" /\ v.s = "float" THEN "float" ELSE v.t

Issues(schema, v) ==
  IF v.t = "undefined"
  THEN IF schema.optional \/ schema.type = "unknown" THEN <<>> ELSE <<"invalid_type Required">>
  ELSE IF schema.type = "unknown" THEN <<>>
  ELSE IF schema.type = "enum"
  THEN IF v.t # "string"
       THEN <<"invalid_type Expected " \o JoinOptions(schema.options, 1) \o ", received " \o v.t>>
       ELSE IF v.s \in Range(schema.options) THEN <<>>
       ELSE <<"invalid_enum_value Invalid enum value. Expected " \o JoinOptions(schema.options, 1)
               \o ", received '" \o v.s \o "'">>
  ELSE IF schema.type = "record"
  THEN IF v.t = "object" THEN <<>> ELSE <<"invalid_type Expected object, received " \o v.t>>
  ELSE IF schema.type = "recordOrArray"
  THEN IF v.t = "object" \/ (v.t = "array" /\ v.s = "ok") THEN <<>> ELSE <<"invalid_union Invalid input">>
  ELSE IF v.t # schema.type
  THEN <<"invalid_type Expected " \o schema.type \o ", received " \o v.t>>
  ELSE IF schema.type = "string"
  THEN (IF schema.min >= 0 /\ Len(v.s) < schema.min
        THEN <<"too_small String must contain at least 1 character(s)">> ELSE <<>>)
       \o (IF schema.max >= 0 /\ Len(v.s) > schema.max
           THEN <<"too_big String must contain at most the maximum character(s)">> ELSE <<>>)
       \o (IF schema.check = "regex" /\ ~PatternTest(schema.pattern, v.s)
           THEN <<"invalid_string validation regex " \o schema.message>> ELSE <<>>)
       \o (IF schema.check = "email" /\ ~PatternTest("email", v.s)
           THEN <<"invalid_string validation email Invalid email">> ELSE <<>>)
       \o (IF schema.check = "refine" /\ ~PatternTest(schema.pattern, v.s)
           THEN <<"custom " \o schema.message>> ELSE <<>>)
  ELSE IF schema.type = "number"
  THEN (IF schema.int /\ v.s = "float"
        THEN <<"invalid_type Expected integer, received float">> ELSE <<>>)
       \o (IF schema.min >= 0 /\ v.n < schema.min
           THEN <<"too_small Number must be greater than or equal to the minimum">> ELSE <<>>)
       \o (IF schema.max >= 0 /\ v.n > schema.max
           THEN <<"too_big Number must be less than or equal to the maximum">> ELSE <<>>)
  ELSE IF schema.type = "array"
  THEN (IF schema.min >= 0 /\ v.n < schema.min
        THEN <<"too_small Array must contain at least 1 element(s)">> ELSE <<>>)
       \o (IF v.s = "bad" THEN <<"invalid_union Invalid input">> ELSE <<>>)
  ELSE <<>>

Accepts(schema, v) == Issues(schema, v) = <<>>

\* issues of one field of an object, with the path
FieldIssues(path, schema, v) ==
  [k \in 1..Len(Issues(schema, v)) |-> [path |-> path, message |-> Issues(schema, v)[k]]]

RECURSIVE JoinIssues(_, _)
JoinIssues(issues, k) ==
  IF k > Len(issues) THEN ""
  ELSE issues[k].path \o " " \o issues[k].message
       \o (IF k < Len(issues) THEN "; " ELSE "") \o JoinIssues(issues, k + 1)

\* new ZodError(issues): message is the JSON text of the issues
ZodError(issues) == Thrown("ZodError", JoinIssues(issues, 1), "", "", issues)

(***************************************************************************)
(* Handlers as programs.  A handler is a sequence of steps run in order:   *)
(*   parse          schema.parse(params.field)                             *)
(*   parseOptional  validateOptionalString(params.field, schema)           *)
(*   parseOrDefault schema.parse(params.field ?? default)                  *)
(*   parseIfTruthy  params.field ? schema.parse(params.field) : undefined  *)
(*   requireString  if (!x || typeof x !== "string") throw new Error(msg)  *)
(*   requireTruthy  if (!x) throw new Error(msg)                           *)
(*   selectOnly     if (!isSelectQuery(x)) throw new Error(msg)            *)
(*   objectParse    validateParams(category, action, params)               *)
(*   call           await of a vendor call; okNext / errNext say what a    *)
(*                  result / an error of the vendor leads to               *)
(*   switch         switch (action) of the category handler                *)
(***************************************************************************)
StepBase ==
  [op |-> "", field |-> "", schema |-> ZType("unknown"), api |-> "", msg |-> "",
   okNext |-> "continue", errNext |-> "throw", object |-> <<>>, argField |-> "", arg |-> ""]

Parse(field, schema) == [StepBase EXCEPT !.op = "parse", !.field = field, !.schema = schema]
ParseOptional(field, schema) ==
  [StepBase EXCEPT !.op = "parseOptional", !.field = field, !.schema = schema]
ParseOrDefault(field, schema) ==
  [StepBase EXCEPT !.op = "parseOrDefault", !.field = field, !.schema = schema]
ParseIfTruthy(field, schema) ==
  [StepBase EXCEPT !.op = "parseIfTruthy", !.field = field, !.schema = schema]
RequireString(field) ==
  [StepBase EXCEPT !.op = "requireString", !.field = field, !.msg = field \o " is required"]
RequireTruthy(field) ==
  [StepBase EXCEPT !.op = "requireTruthy", !.field = field, !.msg = field \o " is required"]
\* sql.explain without its isSelectQuery guard
SelectAny(field) == [StepBase EXCEPT !.op = "skip", !.field = field]
SelectOnly(field) ==
  [StepBase EXCEPT !.op = "selectOnly", !.field = field,
                   !.msg = "EXPLAIN only supports SELECT queries for safety"]
ObjectParse(object) == [StepBase EXCEPT !.op = "objectParse", !.object = object]
Call(api) == [StepBase EXCEPT !.op = "call", !.api = api]
\* a call of the Notion adapter, which hands normalizeNotionId(params[field]) to the SDK
CallById(api, field) ==
  [StepBase EXCEPT !.op = "call", !.api = api, !.argField = field, !.arg = "notionId"]
\* a SQL statement sent to the database: params[field] itself (arg "query")
\* or wrapped in EXPLAIN (arg "explain")
CallSql(api, field, arg) ==
  [StepBase EXCEPT !.op = "call", !.api = api, !.argField = field, !.arg = arg]
\* issues.create / issues.update, which forward
\* params.priority ? prioritySchema.parse(params.priority) : undefined
CallPriority(api) ==
  [StepBase EXCEPT !.op = "call", !.api = api, !.argField = "priority", !.arg = "priority"]
\* a call whose result must be non-empty: if (!result[0]) throw new Error(msg)
CallNonEmpty(api, msg) == [StepBase EXCEPT !.op = "call", !.api = api, !.msg = msg]
\* a call whose result is returned at once and whose error leads to the next step
CallOrFallBack(api) ==
  [StepBase EXCEPT !.op = "call", !.api = api, !.okNext = "return", !.errNext = "continue"]
\* a call whose error is replaced by new SupabaseSkillError(msg, "INTROSPECTION_UNAVAILABLE")
CallOrGiveUp(api, msg) ==
  [StepBase EXCEPT !.op = "call", !.api = api, !.okNext = "return", !.errNext = "giveUp", !.msg = msg]
Switch == [StepBase EXCEPT !.op = "switch"]
F(field, schema) == [field |-> field, schema |-> schema]

\* ---- Linear: validation.ts ----
LinearCategories == <<"issues", "projects", "teams", "comments", "users", "cycles", "labels">>
linearIdSchema ==
  ZRefine("linearId", "Invalid Linear ID format. Use UUID or issue identifier (e.g., ENG-123)")
prioritySchema == ZInt(0, 4)
LinearPageSizeSchema == ZInt(1, 100)
healthStatusSchema == ZEnum(<<"onTrack", "atRisk", "offTrack">>)

\* ---- Linear: index.ts handle*Action ----
LinearActions(category) ==
  CASE category = "issues" ->
         {"list", "search", "get", "create", "update", "archive", "assign", "add_label", "set_cycle"}
    [] category = "projects" -> {"list", "get", "create_update"}
    [] category = "teams" -> {"list", "get"}
    [] category = "comments" -> {"list", "create"}
    [] category = "users" -> {"me", "list"}
    [] category = "cycles" -> {"list", "get"}
    [] category = "labels" -> {"list"}
    [] OTHER -> {}

LinearBody(category, action) ==
  CASE category = "issues" /\ action = "list" ->
         <<ParseOrDefault("first", LinearPageSizeSchema), Call("issues.list")>>
    [] category = "issues" /\ action = "search" ->
         <<RequireString("query"), ParseOrDefault("first", LinearPageSizeSchema), Call("issues.search")>>
    [] category = "issues" /\ action = "get" ->
         <<Parse("issueId", linearIdSchema), Call("issues.get")>>
    [] category = "issues" /\ action = "create" ->
         <<Parse("teamId", linearIdSchema), RequireString("title"),
           ParseIfTruthy("priority", prioritySchema), CallPriority("issues.create")>>
    [] category = "issues" /\ action = "update" ->
         <<Parse("issueId", linearIdSchema), ParseIfTruthy("priority", prioritySchema),
           CallPriority("issues.update")>>
    [] category = "issues" /\ action = "archive" ->
         <<Parse("issueId", linearIdSchema), Call("issues.archive")>>
    [] category = "issues" /\ action = "assign" ->
         <<Parse("issueId", linearIdSchema), Parse("assigneeId", linearIdSchema), Call("issues.assign")>>
    [] category = "issues" /\ action = "add_label" ->
         <<Parse("issueId", linearIdSchema), Parse("labelId", linearIdSchema), Call("issues.addLabel")>>
    [] category = "issues" /\ action = "set_cycle" ->
         <<Parse("issueId", linearIdSchema), Parse("cycleId", linearIdSchema), Call("issues.setCycle")>>
    [] category = "projects" /\ action = "list" ->
         <<ParseOrDefault("first", LinearPageSizeSchema), Call("projects.list")>>
    [] category = "projects" /\ action = "get" ->
         <<Parse("projectId", linearIdSchema), Call("projects.get")>>
    [] category = "projects" /\ action = "create_update" ->
         <<Parse("projectId", linearIdSchema), RequireString("body"),
           Parse("health", healthStatusSchema), Call("projects.createUpdate")>>
    [] category = "teams" /\ action = "list" -> <<Call("teams.list")>>
    [] category = "teams" /\ action = "get" -> <<Parse("teamId", linearIdSchema), Call("teams.get")>>
    [] category = "comments" /\ action = "list" ->
         <<Parse("issueId", linearIdSchema), Call("comments.list")>>
    [] category = "comments" /\ action = "create" ->
         <<Parse("issueId", linearIdSchema), RequireString("body"), Call("comments.create")>>
    [] category = "users" /\ action = "me" -> <<Call("users.me")>>
    [] category = "users" /\ action = "list" -> <<Call("users.list")>>
    [] category = "cycles" /\ action = "list" -> <<Parse("teamId", linearIdSchema), Call("cycles.list")>>
    [] category = "cycles" /\ action = "get" -> <<Parse("cycleId", linearIdSchema), Call("cycles.get")>>
    [] category = "labels" /\ action = "list" -> <<Call("labels.list")>>
    [] OTHER -> <<>>

\* ---- Notion: validation.ts ----
NotionCategories == <<"search", "pages", "databases", "blocks", "comments">>
notionIdSchema == ZRefine("notionId", "Invalid Notion ID format. Must be UUID or 32-char hex string")
searchQuerySchema == ZStringLen(1, 200)
NotionPageSizeSchema == ZInt(1, 100)

\* ---- Notion: index.ts handle*Action ----
NotionActions(category) ==
  CASE category = "search" -> {"query"}
    [] category = "pages" -> {"get", "create", "update", "archive"}
    [] category = "databases" -> {"get", "query", "create_entry"}
    [] category = "blocks" -> {"get", "append"}
    [] category = "comments" -> {"list", "create"}
    [] OTHER -> {}

NotionBody(category, action) ==
  CASE category = "search" /\ action = "query" ->
         <<Parse("query", searchQuerySchema), ParseOrDefault("pageSize", NotionPageSizeSchema),
           Call("search.query")>>
    [] category = "pages" /\ action = "get" -> <<Parse("pageId", notionIdSchema), CallById("pages.get", "pageId")>>
    [] category = "pages" /\ action = "create" ->
         <<Parse("parentId", notionIdSchema), RequireString("title"), CallById("pages.create", "parentId")>>
    [] category = "pages" /\ action = "update" ->
         <<Parse("pageId", notionIdSchema), RequireTruthy("properties"), CallById("pages.update", "pageId")>>
    [] category = "pages" /\ action = "archive" ->
         <<Parse("pageId", notionIdSchema), CallById("pages.archive", "pageId")>>
    [] category = "databases" /\ action = "get" ->
         <<Parse("databaseId", notionIdSchema), CallById("databases.get", "databaseId")>>
    [] category = "databases" /\ action = "query" ->
         <<Parse("databaseId", notionIdSchema), ParseOrDefault("pageSize", NotionPageSizeSchema),
           CallById("databases.query", "databaseId")>>
    [] category = "databases" /\ action = "create_entry" ->
         <<Parse("databaseId", notionIdSchema), RequireTruthy("properties"),
           CallById("databases.createEntry", "databaseId")>>
    [] category = "blocks" /\ action = "get" -> <<Parse("blockId", notionIdSchema), CallById("blocks.get", "blockId")>>
    [] category = "blocks" /\ action = "append" ->
         <<Parse("blockId", notionIdSchema), RequireString("content"), CallById("blocks.append", "blockId")>>
    [] category = "comments" /\ action = "list" ->
         <<Parse("pageId", notionIdSchema), CallById("comments.list", "pageId")>>
    [] category = "comments" /\ action = "create" ->
         <<Parse("pageId", notionIdSchema), RequireString("content"), CallById("comments.create", "pageId")>>
    [] OTHER -> <<>>

\* ---- Neon: validation.ts ----
NeonCategories == <<"projects", "branches", "databases", "connection", "sql", "tables">>
projectIdSchema == ZRegex("neonId", "Invalid project ID format")
branchIdSchema == ZRegex("neonId", "Invalid branch ID format")
databaseNameSchema == ZStringLen(1, 63)
roleNameSchema == ZStringLen(1, 63)
NeonSchemaNameSchema == ZStringLen(1, 63)
NeonTableNameSchema == ZStringLen(1, 63)
\* imported by index.ts from validation.ts, whose text here does not define them
projectNameSchema == ZStringLen(1, 63)
branchNameSchema == ZStringLen(1, 63)
regionIdSchema == ZOptional(ZStringLen(1, 63))
querySchema == ZStringLen(1, -1)
queryParamsSchema == ZOptional(ZType("array"))

\* ---- Neon: index.ts handle*Action ----
NeonActions(category) ==
  CASE category = "projects" -> {"list", "get", "create", "delete"}
    [] category = "branches" -> {"list", "get", "create", "delete"}
    [] category = "databases" -> {"list"}
    [] category = "connection" -> {"get_uri"}
    [] category = "sql" -> {"run", "explain"}
    [] category = "tables" -> {"list", "describe"}
    [] OTHER -> {}

\* statements of the category handler that precede its switch (action)
NeonPrelude(category) ==
  CASE category = "branches" -> <<Parse("projectId", projectIdSchema)>>
    [] category = "databases" ->
         <<Parse("projectId", projectIdSchema), Parse("branchId", branchIdSchema)>>
    [] category = "connection" -> <<Parse("projectId", projectIdSchema)>>
    [] category = "sql" ->
         <<Parse("projectId", projectIdSchema), ParseOptional("branchId", branchNameSchema),
           ParseOptional("databaseName", databaseNameSchema),
           ParseOptional("roleName", roleNameSchema),
           Call("GET /projects/:id/connection_uri")>>
    [] category = "tables" ->
         <<Parse("projectId", projectIdSchema), ParseOptional("branchId", branchNameSchema),
           ParseOptional("databaseName", databaseNameSchema),
           ParseOptional("roleName", roleNameSchema),
           Call("GET /projects/:id/connection_uri"),
           ParseOptional("schema", NeonSchemaNameSchema)>>
    [] OTHER -> <<>>

NeonBody(category, action, allowUri) ==
  CASE category = "projects" /\ action = "list" -> <<Call("GET /projects")>>
    [] category = "projects" /\ action = "get" ->
         <<Parse("projectId", projectIdSchema), Call("GET /projects/:id")>>
    [] category = "projects" /\ action = "create" ->
         <<Parse("name", projectNameSchema), Parse("regionId", regionIdSchema), Call("POST /projects")>>
    [] category = "projects" /\ action = "delete" ->
         <<Parse("projectId", projectIdSchema), Call("DELETE /projects/:id")>>
    [] category = "branches" /\ action = "list" -> <<Call("GET /projects/:id/branches")>>
    [] category = "branches" /\ action = "get" ->
         <<Parse("branchId", branchIdSchema), Call("GET /projects/:id/branches/:id")>>
    [] category = "branches" /\ action = "create" ->
         <<Parse("name", branchNameSchema), ParseOptional("parentId", branchNameSchema),
           Call("POST /projects/:id/branches")>>
    [] category = "branches" /\ action = "delete" ->
         <<Parse("branchId", branchIdSchema), Call("DELETE /projects/:id/branches/:id")>>
    [] category = "databases" /\ action = "list" ->
         <<Call("GET /projects/:id/branches/:id/databases")>>
    [] category = "connection" /\ action = "get_uri" ->
         IF ~allowUri
         THEN <<CallNonEmpty("GET /projects/:id/endpoints", "No endpoint found for project"),
                ParseOptional("databaseName", databaseNameSchema),
                ParseOptional("roleName", roleNameSchema)>>
         ELSE <<ParseOptional("branchId", branchNameSchema),
                ParseOptional("databaseName", databaseNameSchema),
                ParseOptional("roleName", roleNameSchema),
                Call("GET /projects/:id/connection_uri")>>
    [] category = "sql" /\ action = "run" ->
         <<Parse("query", querySchema), Parse("params", queryParamsSchema),
           CallSql("sql.query", "query", "query")>>
    [] category = "sql" /\ action = "explain" ->
         <<Parse("query", querySchema), SelectOnly("query"),
           CallSql("sql.query", "query", "explain")>>
    [] category = "tables" /\ action = "list" -> <<Call("sql.query")>>
    [] category = "tables" /\ action = "describe" ->
         <<Parse("tableName", NeonTableNameSchema), Call("sql.query")>>
    [] OTHER -> <<>>

\* ---- Neon: validation.ts isSelectQuery ----
UpperOf ==
  [c \in Chars(LowerAlpha) |->
     CharAt(UpperAlpha, CHOOSE i \in 1..Len(LowerAlpha) : CharAt(LowerAlpha, i) = c)]

UpperChar(c) == IF c \in DOMAIN UpperOf THEN UpperOf[c] ELSE c

RECURSIVE ToUpperCase(_)
ToUpperCase(s) ==
  IF Len(s) = 0 THEN ""
  ELSE IF Len(s) = 1 THEN UpperChar(s)
  ELSE ToUpperCase(SubSeq(s, 1, Len(s) \div 2)) \o ToUpperCase(SubSeq(s, Len(s) \div 2 + 1, Len(s)))

RECURSIVE TrimEnd(_)
TrimEnd(s) ==
  IF Len(s) > 0 /\ CharAt(s, Len(s)) \in WhiteSpace THEN TrimEnd(SubSeq(s, 1, Len(s) - 1)) ELSE s

Trim(s) == TrimEnd(SubSeq(s, RunEnd(s, 1, WhiteSpace, FALSE), Len(s)))

\* \w of the regular expressions
WordChars == Chars(UpperAlpha) \cup Chars(LowerAlpha) \cup Chars(Digits) \cup {"_"}

\* the test of the keyword without the \\b on its two sides
SubstringTest(keyword, q) ==
  \E i \in 1..(Len(q) - Len(keyword) + 1) :
    ToUpperCase(SubSeq(q, i, i + Len(keyword) - 1)) = keyword

\* new RegExp(`\\b${keyword}\\b`, "i").test(query)
WholeWordTest(keyword, q) ==
  \E i \in 1..(Len(q) - Len(keyword) + 1) :
    /\ ToUpperCase(SubSeq(q, i, i + Len(keyword) - 1)) = keyword
    /\ (i = 1 \/ CharAt(q, i - 1) \notin WordChars)
    /\ (i + Len(keyword) - 1 = Len(q) \/ CharAt(q, i + Len(keyword)) \notin WordChars)

dangerousKeywords ==
  {"INSERT", "UPDATE", "DELETE", "DROP", "TRUNCATE", "ALTER", "CREATE", "GRANT", "REVOKE", "EXECUTE"}

\* isSelectQuery without its test for a semicolon
isSelectQueryStacking(q) ==
  LET normalized == ToUpperCase(Trim(q)) IN
  IF ~StartsWith(normalized, "SELECT") /\ ~StartsWith(normalized, "WITH") THEN FALSE
  ELSE ~\E keyword \in dangerousKeywords : WholeWordTest(keyword, q)

isSelectQuery(q) ==
  LET normalized == ToUpperCase(Trim(q)) IN
  IF ~StartsWith(normalized, "SELECT") /\ ~StartsWith(normalized, "WITH") THEN FALSE
  ELSE IF Includes(q, ";") THEN FALSE
  ELSE ~\E keyword \in dangerousKeywords : WholeWordTest(keyword, q)

\* ---- Supabase: validation.ts ----
SupabaseTableNameSchema ==
  [ZRegex("sqlIdentifier", "Invalid table name. Must be a valid SQL identifier")
     EXCEPT !.min = 1, !.max = 63]
columnsSelectSchema ==
  ZOptional(ZRegex("columns", "Invalid columns format. Use * or comma-separated column names"))
columnNameSchema ==
  [ZRegex("sqlIdentifier",
          "Invalid column name. Must start with letter/underscore, contain only letters/numbers/underscores")
     EXCEPT !.min = 1]
SupabaseSchemaNameSchema ==
  ZOptional([ZRegex("sqlIdentifier", "Invalid schema name. Must be a valid SQL identifier")
               EXCEPT !.min = 1, !.max = 63])
functionNameSchema ==
  [ZRegex("sqlIdentifier", "Invalid function name. Must be a valid SQL identifier")
     EXCEPT !.min = 1, !.max = 63]
filterArraySchema == ZType("array")

selectParamsSchema ==
  <<F("table", SupabaseTableNameSchema), F("columns", columnsSelectSchema),
    F("filter", ZOptional(filterArraySchema)), F("order", ZOptional(ZType("object"))),
    F("limit", ZOptional(ZInt(1, -1))), F("offset", ZOptional(ZInt(0, -1))),
    F("single", ZOptional(ZType("boolean")))>>
insertParamsSchema ==
  <<F("table", SupabaseTableNameSchema), F("data", ZType("recordOrArray")),
    F("returning", columnsSelectSchema)>>
\* the update schema with the filter of select: z.array(...) without min(1)
updateParamsSchemaUnfiltered ==
  <<F("table", SupabaseTableNameSchema), F("data", ZType("record")),
    F("filter", filterArraySchema), F("returning", columnsSelectSchema)>>
updateParamsSchema ==
  <<F("table", SupabaseTableNameSchema), F("data", ZType("record")),
    F("filter", [filterArraySchema EXCEPT !.min = 1]), F("returning", columnsSelectSchema)>>
upsertParamsSchema ==
  <<F("table", SupabaseTableNameSchema), F("data", ZType("recordOrArray")),
    F("onConflict", ZOptional(columnNameSchema)), F("returning", columnsSelectSchema)>>
deleteParamsSchema ==
  <<F("table", SupabaseTableNameSchema), F("filter", [filterArraySchema EXCEPT !.min = 1]),
    F("returning", columnsSelectSchema)>>
rpcParamsSchema == <<F("function", functionNameSchema), F("args", ZOptional(ZType("record")))>>
listTablesParamsSchema == <<F("schema", SupabaseSchemaNameSchema)>>
describeTableParamsSchema ==
  <<F("table", SupabaseTableNameSchema), F("schema", SupabaseSchemaNameSchema)>>
listFunctionsParamsSchema == <<F("schema", SupabaseSchemaNameSchema)>>

\* ---- Supabase: index.ts actionHandlers, supabase-api.ts ----
SupabaseCategories == <<"data", "rpc", "tables", "functions">>

SupabaseActions(category) ==
  CASE category = "data" -> {"select", "insert", "update", "upsert", "delete"}
    [] category = "rpc" -> {"call"}
    [] category = "tables" -> {"list", "describe"}
    [] category = "functions" -> {"list"}
    [] OTHER -> {}

SupabaseBody(category, action) ==
  CASE category = "data" /\ action = "select" ->
         <<ObjectParse(selectParamsSchema), Call("from.select")>>
    [] category = "data" /\ action = "insert" ->
         <<ObjectParse(insertParamsSchema), Call("from.insert")>>
    [] category = "data" /\ action = "update" ->
         <<ObjectParse(updateParamsSchema), Call("from.update")>>
    [] category = "data" /\ action = "upsert" ->
         <<ObjectParse(upsertParamsSchema), Call("from.upsert")>>
    [] category = "data" /\ action = "delete" ->
         <<ObjectParse(deleteParamsSchema), Call("from.delete")>>
    [] category = "rpc" /\ action = "call" -> <<ObjectParse(rpcParamsSchema), Call("rpc")>>
    [] category = "tables" /\ action = "list" ->
         <<ObjectParse(listTablesParamsSchema),
           CallOrFallBack("rpc get_tables_info"),
           CallOrFallBack("from information_schema.tables"),
           CallOrGiveUp("rpc pg_catalog_tables",
                        "Unable to list tables. Consider creating a helper RPC function.")>>
    [] category = "tables" /\ action = "describe" ->
         <<ObjectParse(describeTableParamsSchema),
           CallOrFallBack("rpc get_table_columns"),
           CallOrGiveUp("from information_schema.columns",
                        "Unable to describe table. Consider creating a helper RPC function.")>>
    [] category = "functions" /\ action = "list" ->
         <<ObjectParse(listFunctionsParamsSchema),
           CallOrGiveUp("rpc get_functions_info",
                        "Unable to list functions. Consider creating a helper RPC function.")>>
    [] OTHER -> <<>>

\* ---- Slack: validation.ts ----
slackChannelIdSchema == ZRefine("slackChannelId", "Invalid channel ID. Use C/G prefix ID or #channel-name")
slackUserIdSchema == ZRefine("slackUserId", "Invalid user ID format. Must start with U/W and be 9+ chars")
slackTimestampSchema == ZRefine("slackTimestamp", "Invalid message timestamp. Format: 1234567890.123456")
emojiNameSchema == ZRefine("emojiName", "Invalid emoji name. Use lowercase, numbers, underscores")
channelNameSchema ==
  ZRefine("channelName", "Invalid channel name. Use lowercase, numbers, hyphens, underscores (max 80 chars)")
channelTypesSchema == ZOptional(ZType("array"))
limitSchema == ZOptional(ZInt(1, 1000))
textSchema == ZStringLen(1, 40000)
blocksSchema == ZOptional(ZType("array"))

actionSchemas(category, action) ==
  CASE category = "channels" /\ action = "list" ->
         <<F("types", channelTypesSchema), F("limit", limitSchema)>>
    [] category = "channels" /\ action = "info" -> <<F("channelId", slackChannelIdSchema)>>
    [] category = "channels" /\ action = "members" ->
         <<F("channelId", slackChannelIdSchema), F("limit", limitSchema)>>
    [] category = "channels" /\ action = "create" ->
         <<F("name", channelNameSchema), F("isPrivate", ZOptional(ZType("boolean")))>>
    [] category = "channels" /\ action = "archive" -> <<F("channelId", slackChannelIdSchema)>>
    [] category = "channels" /\ action = "join" -> <<F("channelId", slackChannelIdSchema)>>
    [] category = "messages" /\ action = "post" ->
         <<F("channel", slackChannelIdSchema), F("text", textSchema), F("blocks", blocksSchema),
           F("threadTs", ZOptional(slackTimestampSchema))>>
    [] category = "messages" /\ action = "update" ->
         <<F("channel", slackChannelIdSchema), F("ts", slackTimestampSchema), F("text", textSchema),
           F("blocks", blocksSchema)>>
    [] category = "messages" /\ action = "delete" ->
         <<F("channel", slackChannelIdSchema), F("ts", slackTimestampSchema)>>
    [] category = "messages" /\ action = "history" ->
         <<F("channel", slackChannelIdSchema), F("limit", limitSchema),
           F("oldest", ZOptional(slackTimestampSchema)), F("latest", ZOptional(slackTimestampSchema))>>
    [] category = "messages" /\ action = "replies" ->
         <<F("channel", slackChannelIdSchema), F("ts", slackTimestampSchema), F("limit", limitSchema),
           F("oldest", ZOptional(slackTimestampSchema)), F("latest", ZOptional(slackTimestampSchema))>>
    [] category = "users" /\ action = "list" -> <<F("limit", limitSchema)>>
    [] category = "users" /\ action = "info" -> <<F("userId", slackUserIdSchema)>>
    [] category = "users" /\ action = "lookup_by_email" ->
         <<F("email", [ZString EXCEPT !.check = "email"])>>
    [] category = "users" /\ action = "me" -> <<>>
    [] category = "reactions" /\ action = "add" ->
         <<F("channel", slackChannelIdSchema), F("timestamp", slackTimestampSchema),
           F("name", emojiNameSchema)>>
    [] category = "reactions" /\ action = "remove" ->
         <<F("channel", slackChannelIdSchema), F("timestamp", slackTimestampSchema),
           F("name", emojiNameSchema)>>
    [] category = "reactions" /\ action = "get" ->
         <<F("channel", slackChannelIdSchema), F("timestamp", slackTimestampSchema)>>
    [] category = "files" /\ action = "list" ->
         <<F("channel", ZOptional(slackChannelIdSchema)), F("limit", limitSchema)>>
    [] category = "files" /\ action = "info" -> <<F("fileId", ZStringLen(1, -1))>>
    [] OTHER -> <<>>

\* Object.keys(actionSchemas[category])
SchemaActions(category) ==
  CASE category = "channels" -> {"list", "info", "members", "create", "archive", "join"}
    [] category = "messages" -> {"post", "update", "delete", "history", "replies"}
    [] category = "users" -> {"list", "info", "lookup_by_email", "me"}
    [] category = "reactions" -> {"add", "remove", "get"}
    [] category = "files" -> {"list", "info"}
    [] OTHER -> {}

\* ---- Slack: index.ts handle*Action ----
SlackCategories == <<"channels", "messages", "users", "reactions", "files">>

SlackActions(category) ==
  CASE category = "channels" -> {"list", "info", "members", "create", "archive", "join"}
    [] category = "messages" -> {"post", "update", "delete", "history"}
    [] category = "users" -> {"list", "info", "lookup_by_email", "me"}
    [] category = "reactions" -> {"add", "remove", "get"}
    [] category = "files" -> {"list", "info"}
    [] OTHER -> {}

SlackBody(category, action) ==
  IF action \in SlackActions(category)
  THEN <<ObjectParse(actionSchemas(category, action)), Call(category \o "." \o action)>>
  ELSE <<>>

\* the text listing the actions in the default branch of each Slack handler
SlackAvailable(category) ==
  CASE category = "channels" -> "list, info, members, create, archive, join"
    [] category = "messages" -> "post, update, delete, history"
    [] category = "users" -> "list, info, lookup_by_email, me"
    [] category = "reactions" -> "add, remove, get"
    [] category = "files" -> "list, info"
    [] OTHER -> ""

\* Slack index.ts app.get("/categories"): the literal lists of the answer
ListedActions(category) ==
  CASE category = "channels" -> <<"list", "info", "members", "create", "archive", "join">>
    [] category = "messages" -> <<"post", "update", "delete", "history">>
    [] category = "users" -> <<"list", "info", "lookup_by_email", "me">>
    [] category = "reactions" -> <<"add", "remove", "get">>
    [] category = "files" -> <<"list", "info">>
    [] OTHER -> <<>>

(***************************************************************************)
(* State.                                                                  *)
(***************************************************************************)
VARIABLES
  ALLOW_CONNECTION_URI, \* Neon: process.env.ALLOW_CONNECTION_URI
  allowConnectionUri, \* Neon: config.allowConnectionUri
  pc,                 \* position of the request being served
  req,                \* the request body being served
  steps,              \* what is left to run of the handler
  calls,              \* vendor calls issued for the request, in order
  invoked,            \* functions invoked as handler for the request
  thrown,             \* the value thrown while serving the request
  res,                \* the HTTP response to the request
  served,             \* number of requests answered so far
  sanWho,             \* sanitizer under test
  sanIn,              \* value given to the sanitizer under test
  sanOut,             \* its return value
  sanDone,            \* whether the sanitizer under test has returned
  query,              \* query string given to isSelectQuery
  verdict,            \* what isSelectQuery returned for it
  boot,               \* a proxy process from its start to listening or exit
  issueLabels,        \* Linear: the label ids of the issue, as the vendor holds them
  adders,             \* Linear: the issues.add_label requests in flight
  blocks,             \* Notion: the block tree that the vendor serves in pages
  lines               \* Notion: what getBlockChildren returned for its root

vars == <<ALLOW_CONNECTION_URI, allowConnectionUri, pc, req, steps, calls, invoked, thrown,
          res, served, sanWho, sanIn, sanOut, sanDone, query, verdict, boot, issueLabels,
          adders, blocks, lines>>

configVars == <<ALLOW_CONNECTION_URI, allowConnectionUri>>
pipeVars == <<configVars, pc, req, steps, calls, invoked, thrown, res, served>>
sanVars == <<sanWho, sanIn, sanOut, sanDone>>
sqlVars == <<query, verdict>>
\* the variables of the specifications that exercise one unit by itself
labelVars == <<issueLabels, adders>>
walkVars == <<blocks, lines>>
unitVars == <<sanVars, sqlVars, boot, labelVars, walkVars>>

(***************************************************************************)
(* The five proxies and their routing tables.                              *)
(***************************************************************************)
Proxies == {"linear", "neon", "notion", "slack", "supabase"}

\* the proxies whose POST /action validates the envelope with actionRequestSchema
SchemaProxies == {"linear", "neon", "notion"}

Categories(proxy) ==
  CASE proxy = "linear" -> LinearCategories
    [] proxy = "neon" -> NeonCategories
    [] proxy = "notion" -> NotionCategories
    [] proxy = "slack" -> SlackCategories
    [] proxy = "supabase" -> SupabaseCategories

Actions(proxy, category) ==
  CASE proxy = "linear" -> LinearActions(category)
    [] proxy = "neon" -> NeonActions(category)
    [] proxy = "notion" -> NotionActions(category)
    [] proxy = "slack" -> SlackActions(category)
    [] proxy = "supabase" -> SupabaseActions(category)

\* statements of the category handler before its switch (action)
Prelude(proxy, category) == IF proxy = "neon" THEN NeonPrelude(category) ELSE <<>>

\* statements of the case of the action
Body(proxy, category, action, allowUri) ==
  CASE proxy = "linear" -> LinearBody(category, action)
    [] proxy = "neon" -> NeonBody(category, action, allowUri)
    [] proxy = "notion" -> NotionBody(category, action)
    [] proxy = "slack" -> SlackBody(category, action)
    [] proxy = "supabase" -> SupabaseBody(category, action)

\* Object.keys(categoryHandlers).join(", ") of the Supabase router
SupabaseAvailable(category) ==
  CASE category = "data" -> "select, insert, update, upsert, delete"
    [] category = "rpc" -> "call"
    [] category = "tables" -> "list, describe"
    [] category = "functions" -> "list"
    [] OTHER -> ""

\* actionRequestSchema of linear, neon and notion
actionRequestSchema(proxy) ==
  <<F("category", ZEnum(Categories(proxy))), F("action", ZStringLen(1, 50)),
    F("params", ZType("record"))>>

(***************************************************************************)
(* Requests.  category and action are JavaScript values; params is a       *)
(* function from the names of the fields present to their values, and      *)
(* paramsType tells a body without params ("undefined") from one with.     *)
(***************************************************************************)
NoParams == [f \in {} |-> Undefined]

Request(proxy, category, action, params, paramsType) ==
  [proxy |-> proxy, category |-> category, action |-> action, params |-> params,
   paramsType |-> paramsType]

NoRequest == Request("none", Undefined, Undefined, NoParams, "undefined")

\* params.field
Param(r, field) == IF field \in DOMAIN r.params THEN r.params[field] ELSE Undefined

\* body.params
ParamsValue(r) == IF r.paramsType = "object" THEN Obj ELSE Undefined

RECURSIVE ObjectIssues(_, _, _)
\* issues of z.object(object).parse(params), field by field
ObjectIssues(object, k, r) ==
  IF k > Len(object) THEN <<>>
  ELSE FieldIssues(object[k].field, object[k].schema, Param(r, object[k].field))
       \o ObjectIssues(object, k + 1, r)

\* the value a synchronous step throws for the request, or NoThrown
NoThrown == Thrown("none", "", "", "", <<>>)

StepThrows(step, r) ==
  LET v == Param(r, step.field)
      parsed == IF Accepts(step.schema, v) THEN NoThrown
                ELSE ZodError(FieldIssues("", step.schema, v))
  IN CASE step.op = "parse" -> parsed
       [] step.op = "parseOptional" -> IF v.t \in {"undefined", "null"} THEN NoThrown ELSE parsed
       [] step.op = "parseOrDefault" -> IF v.t \in {"undefined", "null"} THEN NoThrown ELSE parsed
       [] step.op = "parseIfTruthy" -> IF Truthy(v) THEN parsed ELSE NoThrown
       [] step.op = "requireString" ->
            IF ~Truthy(v) \/ v.t # "string" THEN NewError(step.msg) ELSE NoThrown
       [] step.op = "requireTruthy" -> IF ~Truthy(v) THEN NewError(step.msg) ELSE NoThrown
       [] step.op = "selectOnly" ->
            IF v.t = "string" /\ isSelectQuery(v.s) THEN NoThrown ELSE NewError(step.msg)
       [] step.op = "objectParse" ->
            IF r.paramsType # "object"
            THEN ZodError(<<[path |-> "", message |-> "invalid_type Required"]>>)
            ELSE IF ObjectIssues(step.object, 1, r) = <<>> THEN NoThrown
            ELSE ZodError(ObjectIssues(step.object, 1, r))
       [] OTHER -> NoThrown

(***************************************************************************)
(* Request inputs: for every known (category, action) the parameters that  *)
(* its handler reads, each with a value its schema accepts, and at most    *)
(* MaxDeviations of them replaced by another value or left out; unknown    *)
(* categories and actions, among them names that Object.prototype holds.   *)
(***************************************************************************)
MaxDeviations == 1

\* requests served one after the other in a behaviour
MaxRequests == 1

GoodText(pattern) ==
  CASE pattern = "linearId" -> "ENG-123"
    [] pattern = "notionId" -> "0123456789abcdef0123456789abcdef"
    [] pattern = "neonId" -> "cool-frog-123"
    [] pattern = "sqlIdentifier" -> "users"
    [] pattern = "columns" -> "id, name"
    [] pattern = "slackChannelId" -> "C012345678"
    [] pattern = "slackUserId" -> "U012345678"
    [] pattern = "slackTimestamp" -> "1234567890.123456"
    [] pattern = "emojiName" -> "thumbsup"
    [] pattern = "channelName" -> "general"
    [] OTHER -> "text"

GoodValue(field, schema) ==
  CASE field = "query" -> Str("SELECT * FROM t")
    [] schema.type = "string" /\ schema.check = "email" -> Str("a@b.co")
    [] schema.type = "string" -> Str(GoodText(schema.pattern))
    [] schema.type = "number" -> Num(IF schema.min > 0 THEN schema.min ELSE 1)
    [] schema.type = "enum" -> Str(schema.options[1])
    [] schema.type = "array" -> Arr(1, "ok")
    [] schema.type = "boolean" -> Bool(TRUE)
    [] schema.type \in {"record", "recordOrArray", "object"} -> Obj
    [] OTHER -> Str("text")

OtherValues(field, schema) ==
  {Undefined} \cup
  (CASE field = "query" ->
          {Str(""), Str("DROP TABLE t"), Num(7), Str("SELECT 1; DROP TABLE t"),
           Str("with x as (select 1) select * from x"), Str("-- DROP TABLE t\nSELECT 1")}
     [] field = "priority" ->
          {Num(0), Num(1), Num(4), Num(5), Float(2), Str("5"), Str(""), Bool(FALSE)}
     [] schema.type = "string" /\ schema.pattern = "notionId" ->
          {Str(""), Str("Bad Id!"), Num(7), Str("01234567-89ab-cdef-0123-456789abcdef"),
           Str("0123456789ABCDEF0123456789ABCDEF"),
           Str("https://www.notion.so/Page-Title-0123456789abcdef0123456789abcdef")}
     [] schema.type = "string" -> {Str(""), Str("Bad Id!"), Num(7)}
     [] schema.type = "number" ->
          {Num(0), Num(IF schema.max >= 0 THEN schema.max + 1 ELSE 1000), Float(2), Str("5")}
     [] schema.type = "enum" -> {Str("nope")}
     [] schema.type = "array" -> {Arr(0, "ok"), Arr(1, "bad"), Str("x")}
     [] schema.type = "boolean" -> {Str("yes")}
     [] schema.type \in {"record", "recordOrArray", "object"} -> {Str("x"), Arr(1, "bad")}
     [] OTHER -> {Str(""), Num(3)})

\* the fields a program reads, each with the schema of its first use
FieldSchemas(program) ==
  {F(program[k].field, program[k].schema) :
     k \in {j \in 1..Len(program) :
              /\ program[j].field # ""
              /\ \A h \in 1..(j - 1) : program[h].field # program[j].field}}
  \cup UNION {Range(program[k].object) : k \in 1..Len(program)}

FieldsOf(program) == {fs.field : fs \in FieldSchemas(program)}

SchemaOfField(program, field) == (CHOOSE fs \in FieldSchemas(program) : fs.field = field).schema

GoodParams(program) ==
  [f \in FieldsOf(program) |-> GoodValue(f, SchemaOfField(program, f))]

ParamChoices(program) ==
  UNION {
    { [f \in {g \in FieldsOf(program) : ~(g \in D /\ d[g] = Undefined)} |->
         IF f \in D THEN d[f] ELSE GoodParams(program)[f]] :
        d \in {e \in [D -> UNION {OtherValues(g, SchemaOfField(program, g)) : g \in D}] :
                 \A g \in D : e[g] \in OtherValues(g, SchemaOfField(program, g))} } :
    D \in {E \in SUBSET FieldsOf(program) : Cardinality(E) <= MaxDeviations} }

\* one of the other values of a field, of a type its schema does not take
BadValue(field, schema) == IF schema.type \in {"string", "unknown"} THEN Num(7) ELSE Str("x")

\* the parameters of a request that gets every field wrong at once
AllBadParams(program) ==
  [f \in FieldsOf(program) |-> BadValue(f, SchemaOfField(program, f))]

UnknownNames ==
  {"nope", "timeout", "constructor", "__proto__", "keys", "toString", "404", "unauthorized"}

Program(proxy, category, action, allowUri) ==
  Prelude(proxy, category) \o Body(proxy, category, action, allowUri)

KnownRequests(proxy, allowUri) ==
  UNION { UNION { {Request(proxy, Str(c), Str(a), params, "object") :
                     params \in ParamChoices(Program(proxy, c, a, allowUri))} :
                  a \in Actions(proxy, c) } :
          c \in Range(Categories(proxy)) }

SeveralBadRequests(proxy, allowUri) ==
  UNION { {Request(proxy, Str(c), Str(a), AllBadParams(Program(proxy, c, a, allowUri)), "object") :
             a \in {b \in Actions(proxy, c) :
                      Cardinality(FieldsOf(Program(proxy, c, b, allowUri))) >= 2} } :
          c \in Range(Categories(proxy)) }

UnknownActionRequests(proxy) ==
  UNION { {Request(proxy, Str(c), Str(a), GoodParams(Prelude(proxy, c)), "object") :
             a \in UnknownNames} :
          c \in Range(Categories(proxy)) }

\* Slack: requests for the actions that have a schema, with parameters the
\* schema accepts, whether or not a handler has a case for them
DeclaredRequests(proxy) ==
  IF proxy # "slack" THEN {}
  ELSE UNION { {Request(proxy, Str(c), Str(a),
                        GoodParams(<<ObjectParse(actionSchemas(c, a))>>), "object") :
                  a \in SchemaActions(c) \ SlackActions(c)} :
               c \in Range(SlackCategories) }

UnknownCategoryRequests(proxy) ==
  {Request(proxy, Str(c), Str(a), NoParams, pt) :
     c \in UnknownNames, a \in UnknownNames \cup {"list"}, pt \in {"object", "undefined"}}

MalformedRequests(proxy) ==
  {Request(proxy, c, a, NoParams, pt) :
     c \in {Undefined, Str(""), Num(1), Str(Categories(proxy)[1])},
     a \in {Undefined, Str(""), Str("list")},
     pt \in {"object", "undefined"}}

Requests(proxy, allowUri) ==
  KnownRequests(proxy, allowUri) \cup SeveralBadRequests(proxy, allowUri)
  \cup UnknownActionRequests(proxy) \cup DeclaredRequests(proxy)
  \cup UnknownCategoryRequests(proxy) \cup MalformedRequests(proxy)

\* what the vendor's client library throws or returns as error
VendorErrors(proxy) ==
  CASE proxy = "linear" ->
         {NewError("Entity not found: Issue"),
          NewError("Authentication required, not authenticated"),
          NewError("request to https://api.linear.app/graphql failed with Bearer lin_api_1")}
    [] proxy = "neon" ->
         {NewError("Neon API error (404): project not found"),
          NewError("Neon API error (500): internal error"),
          Thrown("TypeError", "fetch failed", "", "", <<>>)}
    [] proxy = "notion" ->
         {Thrown("Error", "Could not find page with ID", "object_not_found", "", <<>>),
          Thrown("Error", "API token is invalid.", "unauthorized", "", <<>>),
          Thrown("Error", "Conflict occurred while saving", "conflict_error", "", <<>>)}
    [] proxy = "slack" ->
         {Thrown("Error", "An API error occurred: channel_not_found",
                 "slack_webapi_platform_error", "channel_not_found", <<>>),
          Thrown("Error", "An API error occurred: internal_error",
                 "slack_webapi_platform_error", "internal_error", <<>>),
          Thrown("Error", "A request error occurred: timeout", "slack_webapi_request_error", "", <<>>)}
    [] proxy = "supabase" ->
         {Thrown("Error", "relation public.users does not exist", "42P01", "", <<>>),
          Thrown("object", "relation public.users does not exist", "42P01", "", <<>>),
          Thrown("object", "JWT expired for db.supabase.co", "PGRST301", "", <<>>)}

\* new SupabaseSkillError(message, code)
SupabaseSkillError(message, code) == Thrown("SupabaseSkillError", message, code, "", <<>>)

\* new SlackSkillError(message), code "SLACK_ERROR"
SlackSkillError(message) == Thrown("SlackSkillError", message, "SLACK_ERROR", "", <<>>)

\* Supabase errors.ts handleSupabaseError: the sanitized pair becomes the
\* message argument of the constructor, so that message is String(pair)
handleSupabaseError(error) ==
  IF error.kind = "SupabaseSkillError" THEN error
  ELSE IF SupabaseSanitizeError(error).shape = "pair"
       THEN SupabaseSkillError("[object Object]", "SUPABASE_ERROR")
       ELSE SupabaseSkillError(SupabaseSanitizeError(error).message, "SUPABASE_ERROR")

\* what the catch around the vendor call of an API function rethrows
Rethrown(proxy, error) == IF proxy = "supabase" THEN handleSupabaseError(error) ELSE error

(***************************************************************************)
(* Responses: the HTTP status and the JSON body.  dataType and errorType   *)
(* are the typeof of body.data and body.error ("none": the key is not in   *)
(* the object literal); JSON.stringify leaves out a key whose value is     *)
(* undefined or a function.                                                *)
(***************************************************************************)
NoResponse ==
  [sent |-> FALSE, status |-> 0, success |-> FALSE, dataType |-> "none", dataKeys |-> {},
   errorType |-> "none", error |-> ""]

\* res.json({ success: true, data })
Success(dataType) ==
  [sent |-> TRUE, status |-> 200, success |-> TRUE, dataType |-> dataType, dataKeys |-> {},
   errorType |-> "none", error |-> ""]

\* res.status(status).json({ success: false, error })
Failure(status, errorType, error) ==
  [sent |-> TRUE, status |-> status, success |-> FALSE, dataType |-> "none", dataKeys |-> {},
   errorType |-> errorType, error |-> error]

HasData(r) == r.dataType \notin {"none", "undefined", "function"}
HasError(r) == r.errorType \notin {"none", "undefined", "function"}

\* text after the issue code of an issue text: the issue's message
RECURSIVE IssueMessage(_)
IssueMessage(text) ==
  IF Len(text) = 0 THEN ""
  ELSE IF CharAt(text, 1) = " " THEN SubSeq(text, 2, Len(text))
  ELSE IssueMessage(SubSeq(text, 2, Len(text)))

RECURSIVE ValidationText(_, _)
\* error.errors.map((e) => `${e.path.join(".")}: ${e.message}`).join(", ")
ValidationText(issues, k) ==
  IF k > Len(issues) THEN ""
  ELSE issues[k].path \o ": " \o IssueMessage(issues[k].message)
       \o (IF k < Len(issues) THEN ", " ELSE "") \o ValidationText(issues, k + 1)

\* a POST /action arrives at one of the proxies
Receive ==
  /\ pc = "idle"
  /\ served < MaxRequests
  /\ \E proxy \in Proxies : \E r \in Requests(proxy, allowConnectionUri) : req' = r
  /\ pc' = "envelope"
  /\ UNCHANGED <<configVars, steps, calls, invoked, thrown, res, served, unitVars>>

\* app.post("/action") up to the call of handleAction
Envelope ==
  /\ pc = "envelope"
  /\ IF req.proxy \in SchemaProxies
     THEN LET issues ==
                FieldIssues("category", actionRequestSchema(req.proxy)[1].schema, req.category)
                \o FieldIssues("action", actionRequestSchema(req.proxy)[2].schema, req.action)
                \o FieldIssues("params", actionRequestSchema(req.proxy)[3].schema, ParamsValue(req))
          IN IF issues # <<>>
             THEN /\ thrown' = ZodError(issues)
                  /\ pc' = "catch"
                  /\ res' = res
             ELSE /\ pc' = "dispatch"
                  /\ UNCHANGED <<thrown, res>>
     ELSE IF ~Truthy(req.category) \/ ~Truthy(req.action)
          THEN /\ res' = Failure(400, "string", "Missing category or action in request body")
               /\ pc' = "done"
               /\ thrown' = thrown
          ELSE /\ pc' = "dispatch"
               /\ UNCHANGED <<thrown, res>>
  /\ UNCHANGED <<configVars, req, steps, calls, invoked, served, unitVars>>

\* String(value) of a category or action put into a message
Text(v) == IF v.t = "string" THEN v.s ELSE IF v.t = "number" THEN "1" ELSE v.t

\* handleAction of linear, neon, notion and slack: switch (category)
DispatchSwitch ==
  /\ pc = "dispatch"
  /\ req.proxy \in SchemaProxies \cup {"slack"}
  /\ IF req.category.t = "string" /\ req.category.s \in Range(Categories(req.proxy))
     THEN /\ invoked' = Append(invoked, req.proxy \o "." \o req.category.s)
          /\ steps' = Prelude(req.proxy, req.category.s) \o <<Switch>>
          /\ pc' = "run"
          /\ UNCHANGED <<thrown, res>>
     ELSE IF req.proxy = "slack"
     THEN /\ res' = Failure(200, "string",
                            "Unknown category: " \o Text(req.category)
                            \o ". Available: channels, messages, users, reactions, files")
          /\ pc' = "done"
          /\ UNCHANGED <<invoked, steps, thrown>>
     ELSE /\ thrown' = NewError("Unknown category: " \o Text(req.category))
          /\ pc' = "catch"
          /\ UNCHANGED <<invoked, steps, res>>
  /\ UNCHANGED <<configVars, req, calls, served, unitVars>>

\* handleAction of supabase: actionHandlers[category][action](params)
DispatchLookup ==
  /\ pc = "dispatch"
  /\ req.proxy = "supabase"
  /\ LET category == Text(req.category)
         action == Text(req.action)
         own == category \in Range(SupabaseCategories)
         categoryHandlers == IF own THEN "own" ELSE LiteralInheritedGet(category)
         handler == IF own
                    THEN IF action \in SupabaseActions(category) THEN "own"
                         ELSE LiteralInheritedGet(action)
                    ELSE BuiltinGet(categoryHandlers, action)
     IN IF categoryHandlers \in {"undefined", "null"}
        THEN /\ res' = Failure(200, "string",
                               "Unknown category: " \o category
                               \o ". Available: data, rpc, tables, functions")
             /\ pc' = "done"
             /\ UNCHANGED <<invoked, steps, thrown>>
        ELSE IF handler \in {"undefined", "null"}
        THEN /\ res' = Failure(200, "string",
                               "Unknown action: " \o action \o ". Available in " \o category
                               \o ": " \o SupabaseAvailable(category))
             /\ pc' = "done"
             /\ UNCHANGED <<invoked, steps, thrown>>
        ELSE IF handler = "own"
        THEN /\ invoked' = Append(invoked, "supabase." \o category \o "." \o action)
             /\ steps' = SupabaseBody(category, action)
             /\ pc' = "run"
             /\ UNCHANGED <<thrown, res>>
        ELSE IF TypeOfBuiltin(handler) # "function"
        THEN /\ thrown' = Thrown("TypeError", BuiltinThrowMessage(handler), "", "", <<>>)
             /\ pc' = "catch"
             /\ UNCHANGED <<invoked, steps, res>>
        ELSE IF BuiltinCall(handler, req.paramsType) = "throws"
        THEN /\ invoked' = Append(invoked, handler)
             /\ thrown' = Thrown("TypeError", BuiltinThrowMessage(handler), "", "", <<>>)
             /\ pc' = "catch"
             /\ UNCHANGED <<steps, res>>
        ELSE /\ invoked' = Append(invoked, handler)
             /\ res' = Success(BuiltinCall(handler, req.paramsType))
             /\ pc' = "done"
             /\ UNCHANGED <<steps, thrown>>
  /\ UNCHANGED <<configVars, req, calls, served, unitVars>>

\* new Error(`Unknown ${category} action: ${action}`) of the default branch
UnknownAction(proxy, category, action) ==
  IF proxy = "slack"
  THEN SlackSkillError("Unknown " \o category \o " action: " \o action
                       \o ". Available: " \o SlackAvailable(category))
  ELSE NewError("Unknown " \o category \o " action: " \o action)

\* what the adapter throws before it reaches the vendor, or NoThrown
CallThrows(step, r) ==
  IF step.arg = "notionId" /\ ~normalizeNotionId(Param(r, step.argField).s).ok
  THEN NewError(normalizeNotionId(Param(r, step.argField).s).message)
  ELSE NoThrown

\* the identifier or the SQL text that the vendor receives with the call
CallArgument(step, r) ==
  CASE step.arg = "notionId" -> normalizeNotionId(Param(r, step.argField).s).id
    [] step.arg = "query" -> Param(r, step.argField).s
    [] step.arg = "priority" ->
         IF Truthy(Param(r, step.argField))
         THEN "priority: " \o SubSeq(Digits, Param(r, step.argField).n + 1,
                                     Param(r, step.argField).n + 1)
         ELSE "priority: undefined"
    [] step.arg = "explain" ->
         "EXPLAIN (ANALYZE, FORMAT TEXT) SELECT * FROM (" \o Param(r, step.argField).s
         \o ") AS _explain_subq"
    [] OTHER -> ""

\* the keys of the object literal that a handler builds itself as its result
\* ({}: the handler returns what the adapter returned)
ResultKeys(r, allowUri) ==
  IF r.proxy = "neon" /\ r.category = Str("connection") /\ r.action = Str("get_uri")
  THEN IF allowUri THEN {"uri"} ELSE {"host", "port", "database", "role", "note"}
  ELSE IF r.proxy = "neon" /\ r.category = Str("sql") /\ r.action = Str("explain")
  THEN {"plan"}
  ELSE {}

\* one synchronous statement of a handler: a validation or the switch (action)
Step ==
  /\ pc = "run"
  /\ steps # <<>>
  /\ Head(steps).op # "call"
  /\ IF Head(steps).op = "switch"
     THEN IF Text(req.action) \in Actions(req.proxy, req.category.s)
          THEN /\ steps' = Body(req.proxy, req.category.s, Text(req.action), allowConnectionUri)
                           \o Tail(steps)
               /\ UNCHANGED <<pc, thrown>>
          ELSE /\ thrown' = UnknownAction(req.proxy, req.category.s, Text(req.action))
               /\ pc' = "catch"
               /\ steps' = steps
     ELSE IF StepThrows(Head(steps), req) # NoThrown
          THEN /\ thrown' = StepThrows(Head(steps), req)
               /\ pc' = "catch"
               /\ steps' = steps
          ELSE /\ steps' = Tail(steps)
               /\ UNCHANGED <<pc, thrown>>
  /\ UNCHANGED <<configVars, req, calls, invoked, res, served, unitVars>>

\* a request to the vendor is sent and the handler awaits its result
IssueCall ==
  /\ pc = "run"
  /\ steps # <<>>
  /\ Head(steps).op = "call"
  /\ IF CallThrows(Head(steps), req) # NoThrown
     THEN /\ thrown' = CallThrows(Head(steps), req)
          /\ pc' = "catch"
          /\ UNCHANGED calls
     ELSE /\ calls' = Append(calls, [api |-> Head(steps).api,
                                     arg |-> CallArgument(Head(steps), req),
                                     outcome |-> "pending"])
          /\ pc' = "await"
          /\ UNCHANGED thrown
  /\ UNCHANGED <<configVars, req, steps, invoked, res, served, unitVars>>

\* the vendor answers: a result, an empty result, or an error
VendorReturn ==
  /\ pc = "await"
  /\ \/ /\ steps' = IF Head(steps).okNext = "return" THEN <<>> ELSE Tail(steps)
        /\ pc' = "run"
        /\ thrown' = thrown
        /\ calls' = [calls EXCEPT ![Len(calls)].outcome = "ok"]
     \/ /\ Head(steps).msg # ""
        /\ Head(steps).errNext = "throw"
        /\ thrown' = Rethrown(req.proxy, NewError(Head(steps).msg))
        /\ pc' = "catch"
        /\ steps' = steps
        /\ calls' = [calls EXCEPT ![Len(calls)].outcome = "empty"]
     \/ \E error \in VendorErrors(req.proxy) :
          /\ calls' = [calls EXCEPT ![Len(calls)].outcome = "error"]
          /\ CASE Head(steps).errNext = "continue" ->
                    /\ steps' = Tail(steps)
                    /\ pc' = "run"
                    /\ thrown' = thrown
               [] Head(steps).errNext = "giveUp" ->
                    /\ thrown' = handleSupabaseError(
                                   SupabaseSkillError(Head(steps).msg, "INTROSPECTION_UNAVAILABLE"))
                    /\ pc' = "catch"
                    /\ steps' = steps
               [] OTHER ->
                    /\ thrown' = Rethrown(req.proxy, error)
                    /\ pc' = "catch"
                    /\ steps' = steps
  /\ UNCHANGED <<configVars, req, invoked, res, served, unitVars>>

\* the handler returned: { success: true, data }
Return ==
  /\ pc = "run"
  /\ steps = <<>>
  /\ res' = [Success("object") EXCEPT !.dataKeys = ResultKeys(req, allowConnectionUri)]
  /\ pc' = "done"
  /\ UNCHANGED <<configVars, req, steps, calls, invoked, thrown, served, unitVars>>

\* the catch clause that answers for a thrown value
Catch ==
  /\ pc = "catch"
  /\ res' =
       IF req.proxy \in SchemaProxies
       THEN LET sanitized == SanitizeWith(req.proxy, thrown) IN
            Failure(sanitized.status, "string", sanitized.message)
       ELSE IF thrown.kind = "ZodError"
       THEN Failure(200, "string", "Validation error: " \o ValidationText(thrown.issues, 1))
       ELSE IF req.proxy = "slack"
       THEN LET sanitized == SlackSanitizeError(thrown) IN
            Failure(200, sanitized.messageType, sanitized.message)
       ELSE Failure(200, "object", SupabaseSanitizeError(thrown).message)
  /\ pc' = "done"
  /\ UNCHANGED <<configVars, req, steps, calls, invoked, thrown, served, unitVars>>

\* the response is out and the proxy waits for the next request, keeping nothing
Idle ==
  /\ pc = "done"
  /\ pc' = "idle"
  /\ req' = NoRequest
  /\ steps' = <<>>
  /\ calls' = <<>>
  /\ invoked' = <<>>
  /\ thrown' = NoThrown
  /\ res' = NoResponse
  /\ served' = served + 1
  /\ UNCHANGED <<configVars, unitVars>>

(***************************************************************************)
(* The sanitizers as pure functions: inputs drawn from bounded sets.       *)
(***************************************************************************)
BearerWords == {"Bearer", "bearer"}
BearerGaps == {" ", "\t "}
BearerTokens == {"abc.DEF-1_2", "xanonKEY", "eyJhb.eyJzd.sig", "Zm9v+YmFy/x=="}
MessagePrefixes == {"", "401 unauthorized: ", "fetch db.supabase.co failed with header "}
MessageSuffixes == {"", " rejected", "; timeout"}

BearerMessages ==
  {p \o w \o g \o t \o x :
     p \in MessagePrefixes, w \in BearerWords, g \in BearerGaps,
     t \in BearerTokens, x \in MessageSuffixes}

PlainMessages ==
  {"", "boom", "Unknown connection action: drop", "relation users does not exist",
   "password=hunter2 postgres://u:p@host/db", "apikey: k-1 and xoxb-12-ab"}

\* words that the rules of the sanitizers look for, and messages holding two of them
RuleWords ==
  {"401", "Unauthorized", "404", "Not Found", "403", "Forbidden", "Rate limit", "429",
   "Invalid", "timeout", "Conflict", "oops"}

RuleMessages == {a \o " " \o b : a \in RuleWords, b \in RuleWords}

ErrorCodes == {"", "42P01", "channel_not_found", "constructor", "CLIENT_NOT_INITIALIZED"}

\* Neon neon-api.ts request: throw new Error(`Neon API error (${response.status}): ${error}`)
NeonApiError(status, body) == NewError("Neon API error (" \o status \o "): " \o body)

\* the statuses and the response bodies of failed Management API requests
NeonStatuses == {"401", "403", "404", "429", "500"}
NeonBodies ==
  {"", "{\"code\":\"\",\"message\":\"project not found\"}", "unauthorized",
   "access forbidden for this key", "rate limit exceeded", "no such branch",
   "request 4291 failed", "connection reset"}

ThrownInputs ==
  {Thrown(k, m, c, "", <<>>) :
     k \in {"Error", "ZodError"}, m \in BearerMessages \cup PlainMessages, c \in {""}}
  \cup {Thrown(k, m, c, "", <<>>) :
     k \in {"Error", "SupabaseSkillError", "SlackSkillError", "object"},
     m \in PlainMessages, c \in ErrorCodes}
  \cup {Thrown("Error", "An API error occurred", "slack_webapi_platform_error", d, <<>>) :
     d \in {"channel_not_found", "ratelimited", "__proto__", "unknown_method"}}
  \cup {Thrown("string", m, "", "", <<>>) : m \in BearerMessages \cup PlainMessages}
  \cup {Thrown(k, m, "", "", <<>>) : k \in {"Error", "ZodError"}, m \in RuleMessages}
  \cup {Thrown(k, "", "", "", <<>>) : k \in {"number", "null", "undefined", "object"}}
  \cup {NeonApiError(status, body) : status \in NeonStatuses, body \in NeonBodies}

(***************************************************************************)
(* Start of a proxy process: the configuration is read and checked, the    *)
(* vendor client is constructed, and only then app.listen binds the        *)
(* socket.  Linear, Neon and Notion read process.env at module level;      *)
(* Slack and Supabase read the key-value file in loadConfig, called by     *)
(* main inside try/catch.                                                  *)
(***************************************************************************)
\* what the API key of each proxy has to start with ("": nothing is asked)
KeyPrefix(proxy) ==
  CASE proxy = "linear" -> "lin_api_"
    [] proxy = "neon" -> "napi_"
    [] proxy = "notion" -> "secret_"
    [] proxy = "slack" -> "xoxb-"
    [] OTHER -> ""

FileProxies == {"slack", "supabase"}

\* the connections one process is followed through
MaxConns == 2
Conns == 1..MaxConns

\* client: the module-level handle is set; assigned: how often initClient has
\* written it; conns: where each connection's request stands; closing:
\* server.close has been called; signal: the last signal received
NoProcess ==
  [proxy |-> "none", file |-> FALSE, key |-> Undefined, url |-> Undefined, phase |-> "off",
   client |-> FALSE, bound |-> FALSE, exitCode |-> -1, assigned |-> 0,
   conns |-> [c \in Conns |-> "none"], closing |-> FALSE, signal |-> ""]

KeyValues(proxy) ==
  {Undefined, Str(""), Str("abc123")}
  \cup (IF proxy = "supabase" THEN {Str("eyJabc.def.ghi")}
        ELSE {Str(KeyPrefix(proxy)), Str(KeyPrefix(proxy) \o "abc123"),
              Str(ToUpperCase(KeyPrefix(proxy)) \o "abc123")})

UrlValues(proxy) ==
  IF proxy = "supabase"
  THEN {Undefined, Str(""), Str("not a url"), Str("https://abc.supabase.co")}
  ELSE {Undefined}

\* the configurations a process can find when it starts
Configurations ==
  UNION {{[NoProcess EXCEPT !.proxy = proxy, !.file = TRUE, !.key = key, !.url = url,
                             !.phase = "start"] :
            key \in KeyValues(proxy), url \in UrlValues(proxy)} :
         proxy \in Proxies}
  \cup {[NoProcess EXCEPT !.proxy = proxy, !.phase = "start"] : proxy \in FileProxies}

\* the configuration checks without the check of the key's prefix
ConfigErrorNoPrefix(b) ==
  IF b.proxy \in FileProxies /\ ~b.file THEN "CONFIG_MISSING"
  ELSE IF b.proxy = "supabase" /\ ~Truthy(b.url) THEN "CONFIG_INVALID"
  ELSE IF ~Truthy(b.key) THEN "CONFIG_INVALID"
  ELSE ""

\* the error of the configuration checks ("": the checks pass)
ConfigError(b) ==
  IF b.proxy \in FileProxies /\ ~b.file THEN "CONFIG_MISSING"
  ELSE IF b.proxy = "supabase" /\ ~Truthy(b.url) THEN "CONFIG_INVALID"
  ELSE IF ~Truthy(b.key) THEN "CONFIG_INVALID"
  ELSE IF ~StartsWith(b.key.s, KeyPrefix(b.proxy)) THEN "CONFIG_INVALID"
  ELSE ""

\* the process starts and finds some configuration
Launch ==
  /\ boot.phase = "off"
  /\ boot' \in Configurations
  /\ UNCHANGED <<pipeVars, walkVars, sanVars, sqlVars, labelVars>>

\* the checks of the configuration: process.exit(1) when one of them fails
LoadConfig ==
  /\ boot.phase = "start"
  /\ boot' = IF ConfigError(boot) # ""
             THEN [boot EXCEPT !.phase = "exited", !.exitCode = 1]
             ELSE [boot EXCEPT !.phase = "configured"]
  /\ UNCHANGED <<pipeVars, walkVars, sanVars, sqlVars, labelVars>>

\* the vendor client is constructed, or its constructor throws: the throw is
\* uncaught at module level (the runtime exits with code 1) or caught by main,
\* which calls process.exit(1)
CreateClient ==
  /\ boot.phase = "configured"
  /\ \/ boot' = [boot EXCEPT !.phase = "constructed", !.client = TRUE,
                              !.assigned = @ + 1]
     \/ boot' = [boot EXCEPT !.phase = "exited", !.exitCode = 1]
  /\ UNCHANGED <<pipeVars, walkVars, sanVars, sqlVars, labelVars>>

\* app.listen called as soon as the configuration is read, whether or not the
\* client has been created
ListenEarly ==
  /\ boot.phase \in {"configured", "constructed"}
  /\ boot' = [boot EXCEPT !.phase = "listening", !.bound = TRUE]
  /\ UNCHANGED <<pipeVars, walkVars, sanVars, sqlVars, labelVars>>

\* app.listen(PORT, "127.0.0.1")
Listen ==
  /\ boot.phase = "constructed"
  /\ boot' = [boot EXCEPT !.phase = "listening", !.bound = TRUE]
  /\ UNCHANGED <<pipeVars, walkVars, sanVars, sqlVars, labelVars>>

StartNext ==
  \/ Launch
  \/ LoadConfig
  \/ CreateClient
  \/ Listen

(***************************************************************************)
(* The life of a listening process: connections are accepted and their     *)
(* requests handled, every handler fetching the client with getClient;     *)
(* SIGINT and SIGTERM run cleanup (Linear, Neon, Notion) or shutdown       *)
(* (Slack), which call server.close(() => process.exit(0)).  The Supabase  *)
(* main registers no handler for either signal, so the runtime's default   *)
(* disposition ends the process.                                           *)
(***************************************************************************)
Signals == {"SIGINT", "SIGTERM"}

\* the proxies whose index.ts calls process.on("SIGINT"/"SIGTERM", ...)
HandlesSignals(proxy) == proxy \in {"linear", "neon", "notion", "slack"}

\* the exit status of a process ended by a signal, as its parent sees it
SignalStatus(sig) == IF sig = "SIGINT" THEN 130 ELSE 143

\* a connection with a request still to be answered
Open(c) == boot.conns[c] \in {"accepted", "handling"}

\* the listening socket takes a connection and the POST /action callback starts
Accept(c) ==
  /\ boot.phase = "listening"
  /\ boot.bound
  /\ ~boot.closing
  /\ boot.conns[c] = "none"
  /\ boot' = [boot EXCEPT !.conns[c] = "accepted"]
  /\ UNCHANGED <<pipeVars, walkVars, sanVars, sqlVars, labelVars>>

\* getClient: throws "... client not initialized" when the handle is null
getClient(c) ==
  /\ boot.phase = "listening"
  /\ boot.conns[c] = "accepted"
  /\ boot' = [boot EXCEPT !.conns[c] = IF boot.client THEN "handling" ELSE "uninitialized"]
  /\ UNCHANGED <<pipeVars, walkVars, sanVars, sqlVars, labelVars>>

\* the vendor call returns and res.json sends the answer; the connection ends
Respond(c) ==
  /\ boot.phase = "listening"
  /\ boot.conns[c] \in {"handling", "uninitialized"}
  /\ boot' = [boot EXCEPT !.conns[c] = "answered"]
  /\ UNCHANGED <<pipeVars, walkVars, sanVars, sqlVars, labelVars>>

\* cleanup / shutdown: server.close stops the socket from accepting
cleanup(sig) ==
  /\ boot.phase = "listening"
  /\ HandlesSignals(boot.proxy)
  /\ boot' = [boot EXCEPT !.signal = sig, !.closing = TRUE]
  /\ UNCHANGED <<pipeVars, walkVars, sanVars, sqlVars, labelVars>>

\* the callback of server.close, run once every connection has ended:
\* process.exit(0)
ServerClosed ==
  /\ boot.phase = "listening"
  /\ boot.closing
  /\ \A c \in Conns : ~Open(c)
  /\ boot' = [boot EXCEPT !.phase = "exited", !.exitCode = 0, !.bound = FALSE]
  /\ UNCHANGED <<pipeVars, walkVars, sanVars, sqlVars, labelVars>>

\* no handler is registered: the signal ends the process at once, and the
\* connections that wait for an answer are reset
Killed(sig) ==
  /\ boot.phase = "listening"
  /\ ~HandlesSignals(boot.proxy)
  /\ boot' = [boot EXCEPT !.signal = sig, !.phase = "exited", !.exitCode = SignalStatus(sig),
                          !.bound = FALSE,
                          !.conns = [c \in Conns |-> IF Open(c) THEN "dropped" ELSE @[c]]]
  /\ UNCHANGED <<pipeVars, walkVars, sanVars, sqlVars, labelVars>>

LifeNext ==
  \/ StartNext
  \/ \E c \in Conns : Accept(c)
  \/ \E c \in Conns : getClient(c)
  \/ \E c \in Conns : Respond(c)
  \/ \E sig \in Signals : cleanup(sig)
  \/ ServerClosed
  \/ \E sig \in Signals : Killed(sig)

(***************************************************************************)
(* Linear issues.add_label with two requests in flight.  addLabel awaits   *)
(* three vendor calls, client.issue, issue.labels and client.updateIssue,  *)
(* and the event loop may run the other request at each await.             *)
(***************************************************************************)
Adders == {1, 2}
LabelIds == {"bug", "ui", "api", "docs"}
\* the label ids of the issue before the requests
LabelsBefore == {"bug"}

IdleAdder == [pc |-> "idle", labelId |-> "", existingLabels |-> {}, sent |-> FALSE,
              success |-> FALSE]

\* handleIssuesAction add_label: both ids validated, client.issues.addLabel
\* called, client.issue(issueId) awaited
AddLabelReceive(r) ==
  /\ adders[r].pc = "idle"
  /\ \E labelId \in LabelIds :
       adders' = [adders EXCEPT ![r].pc = "issue", ![r].labelId = labelId]
  /\ UNCHANGED <<pipeVars, walkVars, sanVars, sqlVars, boot, issueLabels>>

\* const issue = await client.issue(issueId); issue.labels() awaited
FetchIssue(r) ==
  /\ adders[r].pc = "issue"
  /\ adders' = [adders EXCEPT ![r].pc = "labels"]
  /\ UNCHANGED <<pipeVars, walkVars, sanVars, sqlVars, boot, issueLabels>>

\* const existingLabels = await issue.labels(); labelIds built;
\* client.updateIssue(issueId, { labelIds }) awaited
ReadLabels(r) ==
  /\ adders[r].pc = "labels"
  /\ adders' = [adders EXCEPT ![r].pc = "update", ![r].existingLabels = issueLabels]
  /\ UNCHANGED <<pipeVars, walkVars, sanVars, sqlVars, boot, issueLabels>>

\* the vendor replaces the labels of the issue by labelIds;
\* return { success: true } and res.json
UpdateIssue(r) ==
  /\ adders[r].pc = "update"
  /\ issueLabels' = adders[r].existingLabels \cup {adders[r].labelId}
  /\ adders' = [adders EXCEPT ![r].pc = "done", ![r].sent = TRUE, ![r].success = TRUE]
  /\ UNCHANGED <<pipeVars, walkVars, sanVars, sqlVars, boot>>

\* one of the three vendor calls fails: the catch of app.post answers with
\* the sanitized error
AddLabelFail(r) ==
  /\ adders[r].pc \in {"issue", "labels", "update"}
  /\ adders' = [adders EXCEPT ![r].pc = "done", ![r].sent = TRUE]
  /\ UNCHANGED <<pipeVars, walkVars, sanVars, sqlVars, boot, issueLabels>>

LabelNext ==
  \E r \in Adders :
    \/ AddLabelReceive(r)
    \/ FetchIssue(r)
    \/ ReadLabels(r)
    \/ UpdateIssue(r)
    \/ AddLabelFail(r)

(***************************************************************************)
(* Notion getBlockChildren.  The blocks under the root 0 are 1..MaxBlocks; *)
(* parent[i] < i, and the children of a block are served in the order of   *)
(* their numbers, pageSize of them in one response.                        *)
(***************************************************************************)
MaxBlocks == 4
\* blockToText of block i: nothing, or a text of its own
BlockTexts(i) == {"", SubSeq("abcdefgh", i, i)}

NoBlocks == [parent |-> <<>>, text |-> <<>>, pageSize |-> 0]

BlockTrees ==
  {[parent |-> parent, text |-> text, pageSize |-> pageSize] :
     parent \in {f \in [1..MaxBlocks -> 0..(MaxBlocks - 1)] : \A i \in 1..MaxBlocks : f[i] < i},
     text \in {f \in [1..MaxBlocks -> UNION {BlockTexts(i) : i \in 1..MaxBlocks}] :
                \A i \in 1..MaxBlocks : f[i] \in BlockTexts(i)},
     pageSize \in 1..2}

\* the children of the block, in document order
ChildrenOf(tree, blockId) ==
  SelectSeq([i \in 1..Len(tree.parent) |-> i], LAMBDA i : tree.parent[i] = blockId)

\* the vendor's answer to client.blocks.children.list({ block_id, start_cursor });
\* a cursor is the number of children served before it, 0 stands for undefined
ChildrenList(tree, blockId, cursor) ==
  LET all == ChildrenOf(tree, blockId)
      last == IF cursor + tree.pageSize < Len(all) THEN cursor + tree.pageSize ELSE Len(all)
  IN [results |-> SubSeq(all, cursor + 1, last),
      has_more |-> last < Len(all),
      next_cursor |-> IF last < Len(all) THEN last ELSE 0]

\* the blocks of a response carry has_children
HasChildren(tree, blockId) == ChildrenOf(tree, blockId) # <<>>

\* children.map((l) => "  " + l)
IndentLines(ls) == [k \in 1..Len(ls) |-> "  " \o ls[k]]

\* a walk that stops after the first response of every block
NextCursorNone(response) == 0

\* cursor = response.has_more ? (response.next_cursor ?? undefined) : undefined
NextCursor(response) == IF response.has_more THEN response.next_cursor ELSE 0

RECURSIVE getBlockChildrenFrom(_, _, _)
RECURSIVE BlockLines(_, _, _)
\* getBlockChildren(blockId)
getBlockChildren(tree, blockId) == getBlockChildrenFrom(tree, blockId, 0)

\* the body of the for loop for results[k] and the blocks after it
BlockLines(tree, results, k) ==
  IF k > Len(results) THEN <<>>
  ELSE (IF tree.text[results[k]] # "" THEN <<tree.text[results[k]]>> ELSE <<>>)
       \o (IF HasChildren(tree, results[k])
           THEN IndentLines(getBlockChildren(tree, results[k]))
           ELSE <<>>)
       \o BlockLines(tree, results, k + 1)

\* one round of the do-while loop and the rounds after it
getBlockChildrenFrom(tree, blockId, cursor) ==
  LET response == ChildrenList(tree, blockId, cursor) IN
  BlockLines(tree, response.results, 1)
  \o (IF NextCursor(response) # 0
      THEN getBlockChildrenFrom(tree, blockId, NextCursor(response))
      ELSE <<>>)

\* blocks.get / pages.get: getBlockChildren(id) for some tree behind the id
ResolveBlocks ==
  /\ blocks = NoBlocks
  /\ \E tree \in BlockTrees :
       /\ blocks' = tree
       /\ lines' = getBlockChildren(tree, 0)
  /\ UNCHANGED <<pipeVars, sanVars, sqlVars, boot, labelVars>>

(***************************************************************************)
(* isSelectQuery as a pure function: query strings made of an optional     *)
(* lead (blanks or a comment), a first word and a rest.                    *)
(***************************************************************************)
SqlLeads == {"", "  ", "-- DROP TABLE t\n", "-- all rows\n", "/* create */ "}
SqlHeads == {"SELECT", "select", "With", "UPDATE", "Explain SELECT", "(SELECT"}
SqlWords ==
  {"insert", "Update", "DELETE", "drop", "Truncate", "ALTER", "create", "Grant", "REVOKE",
   "execute"}
SqlTails ==
  {" 1", " * FROM t", " updated_at FROM t", " x AS (SELECT 1) SELECT * FROM x",
   " 1; DROP TABLE t", " t SET x=1", " 1 -- delete rows", " * FROM t WHERE a = 'Drop'",
   " 1 /* grant */", " 1;", " \"execute\" FROM t", " 1 \n"}
  \cup {" x, " \o w \o " FROM t" : w \in SqlWords}
  \cup {" " \o w \o "d_at, x_" \o w \o " FROM t" : w \in SqlWords}

Queries == {l \o h \o t : l \in SqlLeads, h \in SqlHeads, t \in SqlTails}

\* process.env.ALLOW_CONNECTION_URI: not set, or the text of the key-value file
AllowValues == {Undefined, Str("true"), Str("TRUE")}

\* a reading of the value that takes "true" in any letter case
IsTrueAnyCase(v) == v.t = "string" /\ ToLowerCase(v.s) = "true"

\* process.env.ALLOW_CONNECTION_URI === "true"
IsTrue(v) == v = Str("true")

\* each proxy has started with its configuration read; nothing has been
\* received and no unit has been exercised
Init ==
  /\ ALLOW_CONNECTION_URI \in AllowValues
  /\ allowConnectionUri = IsTrue(ALLOW_CONNECTION_URI)
  /\ pc = "idle"
  /\ req = NoRequest
  /\ steps = <<>>
  /\ calls = <<>>
  /\ invoked = <<>>
  /\ thrown = NoThrown
  /\ res = NoResponse
  /\ served = 0
  /\ sanWho = "none"
  /\ sanIn = NoThrown
  /\ sanOut = Inherited("undefined")
  /\ sanDone = FALSE
  /\ query = ""
  /\ verdict = Undefined
  /\ boot = NoProcess
  /\ issueLabels = LabelsBefore
  /\ adders = [r \in Adders |-> IdleAdder]
  /\ blocks = NoBlocks
  /\ lines = <<>>

\* the same with ALLOW_CONNECTION_URI not set: the start of the specifications
\* that exercise one unit by itself
UnitInit ==
  /\ ALLOW_CONNECTION_URI = Undefined
  /\ allowConnectionUri = FALSE
  /\ pc = "idle"
  /\ req = NoRequest
  /\ steps = <<>>
  /\ calls = <<>>
  /\ invoked = <<>>
  /\ thrown = NoThrown
  /\ res = NoResponse
  /\ served = 0
  /\ sanWho = "none"
  /\ sanIn = NoThrown
  /\ sanOut = Inherited("undefined")
  /\ sanDone = FALSE
  /\ query = ""
  /\ verdict = Undefined
  /\ boot = NoProcess
  /\ issueLabels = LabelsBefore
  /\ adders = [r \in Adders |-> IdleAdder]
  /\ blocks = NoBlocks
  /\ lines = <<>>

\* sanitizeError(error) of one of the proxies
ApplySanitizer ==
  /\ ~sanDone
  /\ \E who \in Sanitizers, error \in ThrownInputs :
    /\ sanWho' = who
    /\ sanIn' = error
    /\ sanOut' = SanitizeWith(who, error)
    /\ sanDone' = TRUE
    /\ UNCHANGED <<pipeVars, walkVars, sqlVars, boot, labelVars>>

\* isSelectQuery(query)
ClassifyQuery ==
  /\ verdict = Undefined
  /\ \E q \in Queries :
       /\ query' = q
       /\ verdict' = Bool(isSelectQuery(q))
  /\ UNCHANGED <<pipeVars, walkVars, sanVars, boot, labelVars>>

Next ==
  \/ Receive
  \/ Envelope
  \/ DispatchSwitch
  \/ DispatchLookup
  \/ Step
  \/ IssueCall
  \/ VendorReturn
  \/ Return
  \/ Catch
  \/ Idle

\* the POST /action pipeline of the five proxies
Spec == Init /\ [][Next]_vars

\* the sanitizers applied to thrown values
SanSpec == UnitInit /\ [][ApplySanitizer]_vars

\* isSelectQuery applied to query strings
SqlSpec == UnitInit /\ [][ClassifyQuery]_vars

\* the start of a proxy process
StartSpec == UnitInit /\ [][StartNext]_vars

LifeSpec == UnitInit /\ [][LifeNext]_vars

\* the event loop runs every callback that is ready, and the vendor answers
\* every call
LifeFairSpec ==
  /\ LifeSpec
  /\ \A c \in Conns : WF_vars(getClient(c)) /\ WF_vars(Respond(c))
  /\ WF_vars(ServerClosed)
LabelSpec == UnitInit /\ [][LabelNext]_vars
WalkSpec == UnitInit /\ [][ResolveBlocks]_vars

(***************************************************************************)
(* Properties.                                                             *)
(***************************************************************************)
\* the request being served names a declared category of its proxy
KnownCategory ==
  /\ req.proxy \in Proxies
  /\ req.category.t = "string"
  /\ req.category.s \in Range(Categories(req.proxy))

\* the category of the request is a string that its proxy does not declare
UnknownCategory ==
  /\ req.proxy \in Proxies
  /\ req.category.t = "string"
  /\ req.category.s # ""
  /\ req.category.s \notin Range(Categories(req.proxy))

\* the category is declared and the action is a string it does not define
UnknownActionOfCategory ==
  /\ KnownCategory
  /\ req.action.t = "string"
  /\ req.action.s # ""
  /\ req.action.s \notin Actions(req.proxy, req.category.s)

\* category and action are declared and some validation of the handler
\* rejects the parameters of the request
InvalidParams ==
  /\ KnownCategory
  /\ req.action.t = "string"
  /\ req.action.s \in Actions(req.proxy, req.category.s)
  /\ LET program == Program(req.proxy, req.category.s, req.action.s, allowConnectionUri) IN
     \E k \in 1..Len(program) : StepThrows(program[k], req) # NoThrown

\* the request was answered with a refusal that names it unknown, or refused
\* by the envelope check for its category
RejectedAsUnknown ==
  /\ res.sent
  /\ \/ StartsWith(thrown.message, "Unknown ")
     \/ StartsWith(res.error, "Unknown ")
     \/ (UnknownCategory /\ thrown.kind = "ZodError")

\* C1: a request with a parameter that fails its validation issues no vendor
\* call at all: all validation of a request precedes its first vendor call.
C1_NoVendorCallOnInvalidParams == InvalidParams => calls = <<>>

\* C2: a request whose category string is not a declared category is answered
\* with success:false, and neither a handler nor the vendor is invoked for it.
C2_UnknownCategoryRefused ==
  UnknownCategory =>
    /\ invoked = <<>>
    /\ calls = <<>>
    /\ res.sent => ~res.success

\* C3: a request with a declared category and an action the category does not
\* define is answered with success:false, and the vendor is never called for it.
C3_UnknownActionRefused ==
  UnknownActionOfCategory =>
    /\ calls = <<>>
    /\ res.sent => ~res.success

\* C4: every response body is {success:true, data} without error, or
\* {success:false, error} without data, where error is a plain string.
C4_ResponseShape ==
  res.sent =>
    \/ res.success /\ HasData(res) /\ res.errorType = "none"
    \/ ~res.success /\ res.dataType = "none" /\ res.errorType = "string"

\* C5: the status is 200 exactly when the body has success:true, and a body
\* with success:false carries a 4xx or 5xx status.
C5_StatusMatchesSuccess ==
  res.sent =>
    /\ (res.status = 200) <=> res.success
    /\ ~res.success => res.status \in 400..599

\* C6: a request rejected because its category or action is unknown is answered
\* with a status of 400..499.
C6_UnknownIsClientError ==
  (RejectedAsUnknown /\ (UnknownCategory \/ UnknownActionOfCategory)) =>
    res.status \in 400..499

\* C7: the error string for an unknown category contains the rejected category
\* value, and the error string for an unknown action of a known category
\* contains the rejected action value.
C7_ErrorNamesRejectedValue ==
  /\ (RejectedAsUnknown /\ UnknownCategory) =>
       res.errorType = "string" /\ Includes(res.error, req.category.s)
  /\ (RejectedAsUnknown /\ UnknownActionOfCategory) =>
       res.errorType = "string" /\ Includes(res.error, req.action.s)

\* the strings the sanitizers return for the errors they recognise, and the fallback
PrewrittenMessages ==
  {"An unexpected error occurred",
   "Invalid API key. Check your Linear personal API key.",
   "Resource not found. Check the issue/project/team ID.",
   "Access denied. Check your API key permissions.",
   "Rate limit exceeded. Try again later.",
   "Invalid request parameters.",
   "Connection error. Try again later.",
   "Request failed. Check your parameters.",
   "Invalid API key. Check your Neon Organization API key.",
   "Resource not found. Check your project/branch ID.",
   "Invalid API key. Check your Notion integration token.",
   "Resource not found. Check the page/database ID or ensure it's shared with your integration.",
   "Access denied. Ensure the page/database is shared with your integration.",
   "Rate limit exceeded. Try again in a few seconds.",
   "Conflict. The resource may have been modified.",
   "Connection to Slack failed. Try again later."}
  \cup {SLACK_ERROR_MAP[c].message : c \in DOMAIN SLACK_ERROR_MAP}

\* C8: for every thrown error the error text of the response is one of the
\* sanitizer's pre-written strings, and no text of the thrown error's own
\* message appears in the response.
C8_OnlyPrewrittenErrorText ==
  (res.sent /\ thrown # NoThrown) =>
    /\ res.error \in PrewrittenMessages
    /\ thrown.message # "" => ~Includes(res.error, thrown.message)

C10_SanitizerTotal ==
  sanDone =>
    /\ sanOut.shape = "pair"
    /\ sanOut.statusType = "number"
    /\ sanOut.messageType = "string"

\* the substrings that the first four rules of a sanitizer look for in the
\* lower-cased message, in the order authentication, not-found, forbidden, rate-limit
RuleSignals(who) ==
  CASE who = "linear" ->
         <<{"401", "unauthorized", "authentication"}, {"404", "not found", "entity not found"},
           {"403", "forbidden", "permission"}, {"rate limit", "ratelimited"}>>
    [] who = "neon" ->
         <<{"401", "unauthorized", "invalid api key"}, {"404", "not found"},
           {"403", "forbidden"}, {"rate limit", "429"}>>
    [] who = "notion" ->
         <<{"401", "unauthorized", "invalid api key"}, {"404", "not found", "could not find"},
           {"403", "forbidden", "restricted"}, {"rate limit", "429"}>>

\* the substrings of the rules that follow the first four
LaterSignals(who) ==
  CASE who = "linear" -> {"validation", "invalid", "network", "timeout", "econnrefused"}
    [] who = "neon" -> {"connection", "timeout"}
    [] who = "notion" -> {"validation", "invalid", "conflict", "409"}

RuleMatches(who, k, message) ==
  \E signal \in RuleSignals(who)[k] : Includes(ToLowerCase(message), signal)

RuleStatus == <<401, 404, 403, 429>>

\* C11: in the Linear, Neon and Notion sanitizers the first matching rule alone
\* decides: an Error whose message matches several rules gets the status of the
\* earliest of authentication (401), not-found (404), forbidden (403),
\* rate-limit (429); a message matching none of these gets the outcome of a
\* later rule, and one matching no rule at all gets the generic 400 fallback.
C11_FirstMatchingRuleWins ==
  (sanDone /\ sanWho \in {"linear", "neon", "notion"} /\ InstanceOfError(sanIn)) =>
    /\ \A k \in 1..4 :
         (RuleMatches(sanWho, k, sanIn.message)
          /\ \A j \in 1..(k - 1) : ~RuleMatches(sanWho, j, sanIn.message))
         => sanOut.status = RuleStatus[k]
    /\ (\A k \in 1..4 : ~RuleMatches(sanWho, k, sanIn.message))
         => /\ sanOut.status \in {400, 409, 503}
            /\ (/\ ErrorName(sanIn) # "ZodError"
                /\ \A signal \in LaterSignals(sanWho) :
                     ~Includes(ToLowerCase(sanIn.message), signal))
               => sanOut = Pair(400, "Request failed. Check your parameters.")

\* the Neon sanitizer has answered 404 for a message that names the forbidden
\* signal before the not-found signal
C11_Witness ==
  /\ sanDone
  /\ sanWho = "neon"
  /\ sanIn.message = "Forbidden Not Found"
  /\ sanOut = Pair(404, "Resource not found. Check your project/branch ID.")

\* the text starts, after its leading blanks, with SELECT or WITH in any letter case
SelectPrefixed(text) ==
  LET t == Trim(text) IN
  \/ Len(t) >= 6 /\ ToLowerCase(SubSeq(t, 1, 6)) = "select"
  \/ Len(t) >= 4 /\ ToLowerCase(SubSeq(t, 1, 4)) = "with"

Denylist ==
  {"insert", "update", "delete", "drop", "truncate", "alter", "create", "grant", "revoke",
   "execute"}

\* the word occurs in the text in some letter case with no letter, digit or
\* underscore next to it
HasWholeWord(text, word) ==
  \E i \in 1..Len(text) :
    /\ i + Len(word) - 1 <= Len(text)
    /\ ToLowerCase(SubSeq(text, i, i + Len(word) - 1)) = word
    /\ i > 1 => CharAt(text, i - 1) \notin WordChars
    /\ i + Len(word) <= Len(text) => CharAt(text, i + Len(word)) \notin WordChars

\* a semicolon-free SELECT/WITH statement without a denylisted word
ReadOnlyText(text) ==
  /\ SelectPrefixed(text)
  /\ ~Includes(text, ";")
  /\ \A word \in Denylist : ~HasWholeWord(text, word)

\* the text without its SQL comments: -- to the end of the line, /* to */
RECURSIVE StripComments(_)
StripComments(text) ==
  LET starts == {k \in 1..(Len(text) - 1) : SubSeq(text, k, k + 1) \in {"--", "/*"}} IN
  IF starts = {} THEN text
  ELSE LET first == CHOOSE k \in starts : \A m \in starts : k <= m
           line == SubSeq(text, first, first + 1) = "--"
           ends == IF line
                   THEN {e \in (first + 2)..Len(text) : CharAt(text, e) = "\n"}
                   ELSE {e \in (first + 2)..(Len(text) - 1) : SubSeq(text, e, e + 1) = "*/"}
           stop == IF ends = {} THEN Len(text) + 1
                   ELSE LET e == CHOOSE k \in ends : \A m \in ends : k <= m IN
                        IF line THEN e ELSE e + 2
       IN SubSeq(text, 1, first - 1) \o " " \o StripComments(SubSeq(text, stop, Len(text)))

\* C12: isSelectQuery returns false for every query string that contains a
\* semicolon anywhere, whatever its prefix.
C12_SemicolonRejected ==
  (verdict # Undefined /\ Includes(query, ";")) => verdict = Bool(FALSE)

\* a SELECT with a trailing semicolon and no denylisted word has been refused
C12_Witness == query = "select 1;" /\ verdict = Bool(FALSE)

\* C13: isSelectQuery returns true only for a query that starts, after
\* trimming and in any letter case, with SELECT or WITH; it returns false for
\* every query that holds a denylisted keyword as a whole word in any letter
\* case; a keyword that is only part of a longer identifier does not cause
\* rejection.
C13_PrefixAndDenylist ==
  verdict # Undefined =>
    /\ verdict = Bool(TRUE) => SelectPrefixed(query)
    /\ (\E word \in Denylist : HasWholeWord(query, word)) => verdict = Bool(FALSE)
    /\ ReadOnlyText(query) => verdict = Bool(TRUE)

\* a query whose only keywords are parts of longer identifiers has been accepted
C13_Witness ==
  query = "SELECT Updated_at, x_Update FROM t" /\ verdict = Bool(TRUE)

\* C14: a query whose text without its comments is a semicolon-free
\* SELECT/WITH statement without denylisted keywords is classified true, also
\* when a comment precedes the statement or holds a denylisted keyword.
C14_CommentsStripped ==
  (verdict # Undefined /\ ReadOnlyText(StripComments(query))) => verdict = Bool(TRUE)

\* the request is a Neon sql.explain
IsExplain == req.proxy = "neon" /\ req.category = Str("sql") /\ req.action = Str("explain")

\* the query of the request is a string that the read-only test lets through
ExplainableQuery == Param(req, "query").t = "string" /\ ReadOnlyText(Param(req, "query").s)

\* the statements handed to the database driver for the request
Statements == {calls[i].arg : i \in {k \in 1..Len(calls) : calls[k].api = "sql.query"}}

\* C15: sql.explain sends no SQL statement to the database for a query that
\* isSelectQuery refuses: such a request ends in an error, and every statement
\* that is run is EXPLAIN wrapped around a query classified as read-only.
C15_ExplainRunsOnlySelect ==
  IsExplain =>
    /\ Statements # {} => ExplainableQuery
    /\ Statements \subseteq
         {"EXPLAIN (ANALYZE, FORMAT TEXT) SELECT * FROM (" \o Param(req, "query").s
          \o ") AS _explain_subq"}
    /\ (res.sent /\ ~ExplainableQuery) => ~res.success

\* a stacked statement has been refused after the connection URI was fetched,
\* with nothing sent to the database
C15_Witness ==
  /\ IsExplain
  /\ Param(req, "query") = Str("SELECT 1; DROP TABLE t")
  /\ Len(calls) = 1
  /\ Statements = {}
  /\ res.sent
  /\ ~res.success

\* the request is a Neon connection.get_uri
IsGetUri ==
  req.proxy = "neon" /\ req.category = Str("connection") /\ req.action = Str("get_uri")

\* C16: unless ALLOW_CONNECTION_URI is exactly "true", a response to
\* connection.get_uri holds host, port, database, role and note and no
\* connection URI, and getConnectionUri is not called for the request.
C16_UriOnlyWhenAllowed ==
  (IsGetUri /\ ALLOW_CONNECTION_URI # Str("true")) =>
    /\ \A i \in 1..Len(calls) : calls[i].api # "GET /projects/:id/connection_uri"
    /\ "uri" \notin res.dataKeys
    /\ res.success => res.dataKeys = {"host", "port", "database", "role", "note"}

\* with ALLOW_CONNECTION_URI=TRUE the endpoint list has been fetched and the
\* parts of the connection returned
C16_Witness ==
  /\ IsGetUri
  /\ ALLOW_CONNECTION_URI = Str("TRUE")
  /\ Len(calls) = 1
  /\ calls[1].api = "GET /projects/:id/endpoints"
  /\ res.success
  /\ res.dataKeys = {"host", "port", "database", "role", "note"}

\* the credential of the starting process is absent, empty or without the
\* prefix its vendor asks for
Misconfigured ==
  \/ boot.key.t # "string"
  \/ boot.key.s = ""
  \/ Len(boot.key.s) < Len(KeyPrefix(boot.proxy))
  \/ SubSeq(boot.key.s, 1, Len(KeyPrefix(boot.proxy))) # KeyPrefix(boot.proxy)

NotionIdFields == {"pageId", "databaseId", "blockId", "parentId"}

\* the text without its dashes
RECURSIVE Undash(_)
Undash(text) ==
  IF text = "" THEN ""
  ELSE (IF Head(text) = "-" THEN "" ELSE SubSeq(text, 1, 1)) \o Undash(Tail(text))

\* 8-4-4-4-12: dashes at the four places and nowhere else
DashedShape(text) ==
  Len(text) = 36 /\ \A i \in 1..36 : (CharAt(text, i) = "-") <=> (i \in {9, 14, 19, 24})

\* 32 digits of 0-9a-f
Hex32(text) == Len(text) = 32 /\ \A i \in 1..32 : CharAt(text, i) \in Chars("0123456789abcdef")

\* a 32-hex-digit ID in its raw or in its dashed form
HexId(text) == Hex32(text) \/ (DashedShape(text) /\ Hex32(Undash(text)))

\* the request has been refused for the format of its ID, by notionIdSchema
\* or by normalizeNotionId
IdRefused == Includes(thrown.message, "Notion ID")

\* the vendor calls of the request that take the ID
IdCalls == {i \in 1..Len(calls) : calls[i].arg # ""}

C18_DashedServed ==
  /\ req.proxy = "notion"
  /\ req.category = Str("pages")
  /\ req.action = Str("get")
  /\ Param(req, "pageId") = Str("01234567-89ab-cdef-0123-456789abcdef")
  /\ calls = <<[api |-> "pages.get", arg |-> "01234567-89ab-cdef-0123-456789abcdef",
                    outcome |-> "ok"]>>
  /\ res.success

\* the 32-hex-digit IDs that the text embeds
EmbeddedIds(text) ==
  {SubSeq(text, i, i + 31) : i \in {k \in 1..(Len(text) - 31) : Hex32(SubSeq(text, k, k + 31))}}

\* a Notion URL that embeds a 32-hex-digit ID
NotionUrl(text) ==
  /\ StartsWith(text, "https://")
  /\ Includes(text, "notion.so") \/ Includes(text, "notion.site")
  /\ EmbeddedIds(text) # {}

\* C19: in the Notion proxy a request whose ID parameter is a Notion URL
\* embedding a 32-hex ID is not rejected by validation and is served like a
\* request with the bare ID: the vendor is called with the ID of the URL.
C19_UrlServedLikeBareId ==
  \A f \in NotionIdFields :
    (req.proxy = "notion" /\ Param(req, f).t = "string" /\ NotionUrl(Param(req, f).s)) =>
      /\ ~IdRefused
      /\ \A i \in IdCalls : Undash(calls[i].arg) \in EmbeddedIds(Param(req, f).s)
      /\ res.success => IdCalls # {}

\* the program that serves the request (<<>>: there is none)
RequestProgram ==
  IF /\ req.proxy \in Proxies
     /\ req.category.t = "string"
     /\ req.category.s \in Range(Categories(req.proxy))
     /\ req.action.t = "string"
     /\ req.action.s \in Actions(req.proxy, req.category.s)
  THEN Program(req.proxy, req.category.s, req.action.s, allowConnectionUri)
  ELSE <<>>

\* the fields of the request whose value is present and against the schema
\* declared for the field
ViolatedFields ==
  {fs.field : fs \in {gs \in FieldSchemas(RequestProgram) :
                        /\ Param(req, gs.field).t \notin {"undefined", "null"}
                        /\ ~Accepts(gs.schema, Param(req, gs.field))}}

\* C20: in every proxy, when the params of a request violate several field
\* constraints at once, the error message of the response reports every
\* violated field, not only the first one met.
C20_AllFieldErrorsReported ==
  (res.sent /\ Cardinality(ViolatedFields) >= 2) =>
    /\ ~res.success
    /\ res.errorType = "string"
    /\ \A f \in ViolatedFields : Includes(res.error, f)

\* the vendor calls of the request that failed
FailedCalls == {i \in 1..Len(calls) : calls[i].outcome = "error"}

\* C21: no proxy re-attempts locally: once a vendor call made for a request
\* has failed, no further vendor call is issued for that request and the
\* request is answered with an error response.
C21_NoCallAfterFailure ==
  /\ \A i \in FailedCalls : i = Len(calls)
  /\ (res.sent /\ FailedCalls # {}) => ~res.success

\* the request is a Linear issues.create or issues.update
IsCreateOrUpdate ==
  /\ req.proxy = "linear"
  /\ req.category = Str("issues")
  /\ req.action \in {Str("create"), Str("update")}

\* an integer of 0..4
ValidPriority(v) == v.t = "number" /\ v.s # "float" /\ v.n \in 0..4

\* the vendor calls that create or update the issue
IssueWrites == {i \in 1..Len(calls) : calls[i].api \in {"issues.create", "issues.update"}}

\* C22: in Linear issues.create and issues.update every supplied integer
\* priority of 0..4, 0 included, is forwarded unchanged to the vendor call,
\* and every other supplied priority makes the request fail validation with
\* no vendor call.
C22_PriorityForwardedOrRejected ==
  (IsCreateOrUpdate /\ Param(req, "priority").t \notin {"undefined", "null"}) =>
    IF ValidPriority(Param(req, "priority"))
    THEN \A i \in IssueWrites :
           calls[i].arg = "priority: " \o SubSeq("01234", Param(req, "priority").n + 1,
                                                 Param(req, "priority").n + 1)
    ELSE /\ IssueWrites = {}
         /\ res.sent => ~res.success

\* the fixed response of the Neon proxy for a status of the Management API
NeonFixed(status) ==
  CASE status = "401" -> Pair(401, "Invalid API key. Check your Neon Organization API key.")
    [] status = "403" -> Pair(403, "Access denied. Check your API key permissions.")
    [] status = "404" -> Pair(404, "Resource not found. Check your project/branch ID.")
    [] status = "429" -> Pair(429, "Rate limit exceeded. Try again later.")

\* C23: in the Neon proxy a Management API response with status 401, 403,
\* 404 or 429 produces a response with the same status and the fixed message
\* of that status, whatever the text of the vendor's response body.
C23_StatusDecidesResponse ==
  \A status \in {"401", "403", "404", "429"} : \A body \in NeonBodies :
    (sanDone /\ sanWho = "neon" /\ sanIn = NeonApiError(status, body)) =>
      sanOut = NeonFixed(status)

\* C24: concurrent requests do not interfere: when two issues.add_label
\* requests for the same issue with different labels have both returned
\* success, the issue carries both labels and all the labels it had before.
C24_NoLostLabel ==
  (/\ \A r \in Adders : adders[r].sent /\ adders[r].success
   /\ adders[1].labelId # adders[2].labelId) =>
    LabelsBefore \cup {adders[r].labelId : r \in Adders} \subseteq issueLabels

\* C25: in the Linear, Notion and Neon proxies every request rejected by
\* schema validation, by the envelope schema or by a field schema, is answered
\* with status 400 and "Invalid request parameters.", whatever the text of
\* the rejected values.
C25_ValidationAnswers400 ==
  (req.proxy \in SchemaProxies /\ res.sent /\ thrown.kind = "ZodError") =>
    /\ res.status = 400
    /\ res.error = "Invalid request parameters."

\* two spaces per level
RECURSIVE Indent(_)
Indent(depth) == IF depth = 0 THEN "" ELSE "  " \o Indent(depth - 1)

\* the blocks under the block in pre-order, each with its depth below it
RECURSIVE PreOrder(_, _, _)
PreOrder(tree, blockId, depth) ==
  LET kids == {i \in 1..Len(tree.parent) : tree.parent[i] = blockId}
      RECURSIVE Walk(_)
      Walk(rest) ==
        IF rest = {} THEN <<>>
        ELSE LET first == CHOOSE i \in rest : \A j \in rest : i <= j IN
             <<[id |-> first, depth |-> depth]>> \o PreOrder(tree, first, depth + 1)
             \o Walk(rest \ {first})
  IN Walk(kids)

\* one indented line for every block of the sequence that has text
RECURSIVE TextLines(_, _)
TextLines(tree, visit) ==
  IF visit = <<>> THEN <<>>
  ELSE (IF tree.text[Head(visit).id] # ""
        THEN <<Indent(Head(visit).depth) \o tree.text[Head(visit).id]>> ELSE <<>>)
       \o TextLines(tree, Tail(visit))

\* C26: getBlockChildren returns one line for every block with text under
\* the given block, across all pages and all nesting levels, in pre-order
\* document order, each line indented by two spaces per level below the root.
C26_AllBlocksResolved ==
  blocks # NoBlocks => lines = TextLines(blocks, PreOrder(blocks, 0, 0))

\* a block with one child, followed by further children of the root and
\* served one block per page, has been resolved into one line per block
C26_Witness ==
  /\ blocks # NoBlocks
  /\ blocks.pageSize = 1
  /\ blocks.parent[2] = 1
  /\ \A i \in 3..Len(blocks.parent) : blocks.parent[i] = 0
  /\ \A i \in 1..Len(blocks.text) : blocks.text[i] # ""
  /\ Len(lines) = Len(blocks.parent)
  /\ SubSeq(lines, 1, 4) = <<"a", "  b", "c", "d">>

\* the request is a Supabase data.update or data.delete
IsUpdateOrDelete ==
  /\ req.proxy = "supabase"
  /\ req.category = Str("data")
  /\ req.action \in {Str("update"), Str("delete")}

\* the filter of the request is a list of at least one condition
HasFilter == Param(req, "filter").t = "array" /\ Param(req, "filter").n >= 1

\* C27: in the Supabase proxy data.update and data.delete never issue a
\* vendor call without at least one filter condition: a request whose filter
\* is missing or an empty list is rejected with a validation error.
C27_NoUnfilteredWrite ==
  (IsUpdateOrDelete /\ ~HasFilter) =>
    /\ calls = <<>>
    /\ res.sent =>
         /\ ~res.success
         /\ res.errorType = "string"
         /\ StartsWith(res.error, "Validation error: ")
         /\ Includes(res.error, "filter")

\* a delete with an empty filter list has been refused without a vendor call
C27_Witness ==
  /\ req.proxy = "supabase"
  /\ req.category = Str("data")
  /\ req.action = Str("delete")
  /\ Param(req, "filter") = Arr(0, "ok")
  /\ calls = <<>>
  /\ res.sent
  /\ ~res.success
  /\ Includes(res.error, "filter: Array must contain at least 1 element(s)")

\* C28: in the Supabase and Slack proxies the client handle is assigned
\* exactly once, before the server listens, and never reassigned or cleared:
\* whenever a request is being handled the handle is set, and getClient never
\* fails with "client not initialized".
C28_ClientSetWhileServing ==
  boot.proxy \in FileProxies =>
    /\ boot.assigned <= 1
    /\ boot.client <=> boot.assigned = 1
    /\ boot.phase = "listening" => boot.client
    /\ \A c \in Conns :
         /\ boot.conns[c] # "none" => boot.client
         /\ boot.conns[c] # "uninitialized"

\* the Slack proxy answered one request and handles another with its handle
\* assigned once
C28_Witness ==
  /\ boot.proxy = "slack"
  /\ boot.phase = "listening"
  /\ boot.assigned = 1
  /\ boot.client
  /\ boot.conns[1] = "answered"
  /\ boot.conns[2] = "handling"

\* the Slack request names a pair that has a parameter schema
Declared ==
  /\ req.category.t = "string" /\ req.action.t = "string"
  /\ req.action.s \in SchemaActions(req.category.s)

\* the Slack request names a pair that GET /categories lists
Listed ==
  /\ req.category.t = "string" /\ req.action.t = "string"
  /\ req.action.s \in Range(ListedActions(req.category.s))

\* the answer is the one of a case of a handler's switch: neither the 400 of
\* the envelope nor the default branch of a switch
Dispatched ==
  /\ res.status # 400
  /\ ~Includes(res.error, "Unknown category: ")
  /\ ~(StartsWith(thrown.message, "Unknown ") /\ Includes(thrown.message, " action: "))

\* C29: in the Slack proxy the pairs (category, action) that the router
\* dispatches to a handler are the pairs with a schema in actionSchemas and
\* the pairs listed by GET /categories: every declared action is reachable
\* and every reachable action is declared.
C29_DeclaredIffDispatched ==
  (req.proxy = "slack" /\ res.sent) =>
    /\ Dispatched <=> Declared
    /\ Declared <=> Listed

\* the process has received SIGINT or SIGTERM
Signalled == boot.signal # ""

\* the process has ended with exit code 0
ExitedClean == boot.phase = "exited" /\ boot.exitCode = 0

\* C30: the servers shut down cleanly: after SIGINT or SIGTERM the server
\* accepts no new connection and the process eventually exits with code 0,
\* and a request in flight when the signal arrives is answered before the
\* process exits.
C30_CleanShutdown ==
  /\ [](Signalled => (boot.closing \/ boot.phase = "exited"))
  /\ [](\A c \in Conns : boot.conns[c] # "dropped")
  /\ Signalled ~> ExitedClean

\* the same for the proxies that register a handler for the two signals
C30_HandlersShutDownClean ==
  /\ [](Signalled /\ HandlesSignals(boot.proxy) => (boot.closing \/ boot.phase = "exited"))
  /\ [](HandlesSignals(boot.proxy) => \A c \in Conns : boot.conns[c] # "dropped")
  /\ (Signalled /\ HandlesSignals(boot.proxy)) ~> ExitedClean

====
